---- MODULE Spec2Model ----
(***************************************************************************)
(* GitHub integration of baaton: webhook receiver, webhook processor,      *)
(* sync job runner, status mapper, issue linker and installation token     *)
(* cache, as state machines over the tables of the relational store.       *)
(***************************************************************************)
EXTENDS Integers, Sequences, FiniteSets, TLC

VARIABLES
    secret,       \* GITHUB_WEBHOOK_SECRET as the process sees it
    instances,    \* the runner instances polling the store
    mappings,     \* github_repo_mappings rows
    events,       \* github_webhook_events rows, in created_at order
    prLinks,      \* github_pr_links rows
    commitLinks,  \* github_commit_links rows
    issues,       \* issues rows: status, sync_source, sync_lock_until
    jobs,         \* github_sync_jobs rows
    now,          \* the store's clock, in seconds
    rcv,          \* the receiver invocation in flight (handle)
    resp,         \* the HTTP response written by the last step, if any
    returned,     \* what process_webhook_event returned in the last step, if any
    applied,      \* what apply_status_mapping did in the last step, if called
    procs,        \* process_webhook_event invocations, per caller
    runners,      \* start_job_runner loop position, per instance
    dispatched,   \* number of handler dispatches per delivery id
    linked,       \* a call of the issue linker: its arguments and its result
    token_cache,  \* GitHubClient.token_cache: installation id -> CachedToken
    calls,        \* for_installation invocations in flight, per caller
    built,        \* the client for_installation returned in the last step, if any
    minted,       \* number of installation tokens GitHub has issued
    private_key,  \* GITHUB_APP_PRIVATE_KEY as the process sees it
    server,       \* the process: starting, or listening for HTTP requests
    kills,        \* how many times the process was killed and started again
    installations, \* github_installations: the status of each installation
    repositories  \* github_repositories rows

vars == <<secret, instances, mappings, events, prLinks, commitLinks, issues, jobs, now,
          rcv, resp, returned, applied, procs, runners,
          dispatched, linked, token_cache, calls, built, minted, private_key,
          server, kills, installations, repositories>>

config == <<secret, instances, mappings, private_key, server, kills,
            installations, repositories>>
links == <<prLinks, commitLinks, issues>>
outputs == <<resp, returned, applied>>
client == <<token_cache, calls, built, minted>>

-----------------------------------------------------------------------------
(* Bounds *)

NumDeliveries == 1
NumRunners == 2
NumJobs == 1
MaxTime == 7
MaxDispatch == 5
MaxRetriesBound == 2
MaxTextLen == 2
MaxMinutes == 2
MaxMint == 2
MaxRepeat == 100
MaxKills == 1
NumStored == 6

(* Program constants *)

MAX_EVENT_ATTEMPTS == 3
RETRY_BATCH == 5
LOCK_SECONDS == 5
BACKOFF_BASE == 5
SLEEP_IDLE == 2
SLEEP_ERROR == 5
REFRESH_MARGIN == 300
FALLBACK_LIFETIME == 3300
JWT_BACKDATE == 60
JWT_LIFETIME == 540
MINUTE == 60

OK == 200
TEMPORARY_REDIRECT == 307
BAD_REQUEST == 400
UNAUTHORIZED == 401
INTERNAL_SERVER_ERROR == 500

None == "none"

DeliveryIds == 1..NumDeliveries

Keys == {"k1", "k2"}

-----------------------------------------------------------------------------
(* Webhook payloads.  A body is a byte string; BodyTable gives, for each    *)
(* body the model sends, whether it is well-formed JSON and the fields the  *)
(* handlers read from it.  repo = 0: repository.id absent.  Branch names,   *)
(* titles, bodies and commit messages are texts of tokens.                  *)

IdTok(prefix, num) == [k |-> "id", prefix |-> prefix, num |-> num]
CloseTok(num) == [k |-> "close", prefix |-> "fixes", num |-> num]
WordTok == [k |-> "word", prefix |-> "", num |-> 0]

NoDoc == [action |-> None, repo |-> 0, pr |-> 0, merged |-> None,
          draft |-> FALSE, branch |-> <<>>, title |-> <<>>, body |-> <<>>,
          commits |-> <<>>, installation |-> 0, issue |-> 0,
          author |-> None, additions |-> 0]

\* An installation payload: the action and installation.id (0: absent)
InstallDoc(action, id) == [NoDoc EXCEPT !.action = action, !.installation = id]

\* An issues payload: the action, repository.id and issue.number
IssueDoc(action, repo, number) ==
    [NoDoc EXCEPT !.action = action, !.repo = repo, !.issue = number]

\* A pull_request payload of PR 1 of repository repo, from branch "baa-1-x"
PrDoc(action, repo, merged, draft) ==
    [NoDoc EXCEPT !.action = action, !.repo = repo, !.pr = 1,
                  !.merged = merged, !.draft = draft,
                  !.branch = <<<<IdTok("baa", 1), WordTok>>>>,
                  !.title = <<WordTok>>, !.author = "octocat"]

Commit(sha, message) == [sha |-> sha, message |-> message]

\* A push payload to a branch of repository 1
PushDoc(branch, commits) ==
    [NoDoc EXCEPT !.repo = 1, !.branch = branch, !.commits = commits]

BodyTable == <<
    [json |-> TRUE, doc |-> PrDoc("opened", 1, "false", FALSE)],
    [json |-> TRUE,
     doc |-> PushDoc(<<<<IdTok("baa", 1), WordTok>>>>,
                     <<Commit("sha1", <<WordTok>>)>>)],
    [json |-> TRUE, doc |-> PrDoc("closed", 0, "true", FALSE)],
    [json |-> FALSE, doc |-> NoDoc] >>

Bodies == DOMAIN BodyTable

\* serde_json::from_slice
ParseJson(body) ==
    IF BodyTable[body].json THEN [ok |-> TRUE, doc |-> BodyTable[body].doc]
    ELSE [ok |-> FALSE, doc |-> NoDoc]

-----------------------------------------------------------------------------
(* Signature verification.  A header value is a sequence of tokens: the     *)
(* prefix "sha256=" is one token, every other token is one character.       *)

HexDigits == <<"0", "1", "2", "3", "4", "5", "6", "7", "8", "9",
               "a", "b", "c", "d", "e", "f">>
UpperHexDigits == <<"0", "1", "2", "3", "4", "5", "6", "7", "8", "9",
                    "A", "B", "C", "D", "E", "F">>

IsHexChar(c) == \E i \in 1..16 : HexDigits[i] = c \/ UpperHexDigits[i] = c
HexVal(c) == (CHOOSE i \in 1..16 : HexDigits[i] = c \/ UpperHexDigits[i] = c) - 1

\* hex::encode
HexEncode(bytes) ==
    [i \in 1..(2 * Len(bytes)) |->
        IF i % 2 = 1 THEN HexDigits[(bytes[(i + 1) \div 2] \div 16) + 1]
        ELSE HexDigits[(bytes[i \div 2] % 16) + 1]]

\* hex::decode: an odd length or a character that is no hex digit is an error
HexDecode(chars) ==
    IF Len(chars) % 2 # 0 \/ \E i \in 1..Len(chars) : ~IsHexChar(chars[i])
    THEN [ok |-> FALSE, bytes |-> <<>>]
    ELSE [ok |-> TRUE,
          bytes |-> [i \in 1..(Len(chars) \div 2) |->
                        16 * HexVal(chars[2 * i - 1]) + HexVal(chars[2 * i])]]

KeyCode(k) == IF k = "k1" THEN 1 ELSE 2

\* HmacSha256 over the raw body: a keyed digest, here one byte wide
Mac(key, body) == <<(KeyCode(key) * 37 + body * 11 + 3) % 256>>

\* strip_prefix("sha256=")
StripPrefix(sig) ==
    IF Len(sig) >= 1 /\ sig[1] = "sha256="
    THEN [ok |-> TRUE, rest |-> Tail(sig)]
    ELSE [ok |-> FALSE, rest |-> <<>>]

\* A verification that accepts the digest under any key
VerifySignatureAnyKey(body, key, sig) ==
    LET hex == StripPrefix(sig)
        dec == HexDecode(hex.rest)
    IN  hex.ok /\ dec.ok /\ \E k \in Keys : dec.bytes = Mac(k, body)

\* verify_signature(body, secret, signature) is Ok
VerifySignature(body, key, sig) ==
    LET hex == StripPrefix(sig)
        dec == HexDecode(hex.rest)
    IN  hex.ok /\ dec.ok /\ dec.bytes = Mac(key, body)

-----------------------------------------------------------------------------
(* Requests.  A header is absent, present but not visible ASCII ("opaque":  *)
(* to_str fails), or text.                                                  *)

Absent == [kind |-> "absent", value |-> <<>>]
Opaque == [kind |-> "opaque", value |-> <<>>]
Text(v) == [kind |-> "text", value |-> v]

\* headers.get(name).and_then(|v| v.to_str().ok())
HeaderGet(h) == h.kind = "text"

Signed(key, body) == <<"sha256=">> \o HexEncode(Mac(key, body))
UpperCase(chars) ==
    [i \in 1..Len(chars) |->
        IF IsHexChar(chars[i]) THEN UpperHexDigits[HexVal(chars[i]) + 1]
        ELSE chars[i]]

\* Signatures of every body under the configured key, of one body under
\* another key, in upper case, without the prefix; and malformed ones
SignatureHeaders ==
    {Absent, Opaque}
    \cup {Text(Signed("k1", b)) : b \in Bodies}
    \cup {Text(Signed("k2", 1)),
          Text(<<"sha256=">> \o UpperCase(HexEncode(Mac("k1", 2)))),
          Text(HexEncode(Mac("k1", 1))),
          Text(<<"sha256=", "z", "z">>), Text(<<"sha256=", "3">>),
          Text(<<"sha256=">>)}

EventHeaders == {Absent, Opaque, Text(<<"pull_request">>), Text(<<"push">>)}

DeliveryHeaders == {Absent} \cup {Text(<<d>>) : d \in DeliveryIds}

Requests == [sig : SignatureHeaders, event : EventHeaders,
             delivery : DeliveryHeaders, body : Bodies]

NoRequest == [sig |-> Absent, event |-> Absent, delivery |-> Absent, body |-> 0]

NoResponse == [req |-> NoRequest, code |-> 0, log |-> None]
NoReturn == [caller |-> <<"none", 0>>, delivery |-> 0, value |-> None]

NoCall == [item |-> 0, key |-> None, at |-> 0, storeUp |-> TRUE, ok |-> TRUE,
           rows |-> 0]

\* A step that writes no HTTP response, returns from no processor call and
\* is no direct call of the status mapper
Quiet == resp' = NoResponse /\ returned' = NoReturn /\ applied' = NoCall

-----------------------------------------------------------------------------
(* Rows and callers *)

NoSecret == "unset"

EventRow(d, etype, doc) ==
    [delivery_id |-> d, event_type |-> etype, payload |-> doc,
     status |-> "pending", retry_count |-> 0, error_message |-> None]

NoRow == [delivery_id |-> 0, event_type |-> None, payload |-> NoDoc,
          status |-> None, retry_count |-> 0, error_message |-> None]

\* SELECT ... FROM github_webhook_events WHERE delivery_id = $1
RowsOf(d) == {i \in 1..Len(events) : events[i].delivery_id = d}

\* A lookup that never finds the delivery
ExistsNever(d) == FALSE

\* exists.is_some()
Exists(d) == RowsOf(d) # {}

TaskSlots == 1..(2 * NumDeliveries)
RunnerIds == 1..NumRunners
Task(i) == <<"task", i>>
RunnerCaller(r) == <<"runner", r>>
Callers == {Task(i) : i \in TaskSlots} \cup {RunnerCaller(r) : r \in RunnerIds}

IdleProc == [pc |-> "idle", delivery |-> 0, event |-> NoRow, result |-> None]
StartProc(d) == [IdleProc EXCEPT !.pc = "mark", !.delivery = d]
DoneProc == [IdleProc EXCEPT !.pc = "done"]

IdleRunner == [pc |-> "retry", batch |-> <<>>, job |-> 0, sleep |-> 0,
               wake |-> 0]

IdleReceiver == [pc |-> "idle", req |-> NoRequest]

-----------------------------------------------------------------------------
(* Webhook receiver: handle *)

\* A receiver that verifies the signature before it looks at the other
\* headers
PrecheckVerifyFirst(req) ==
    IF ~HeaderGet(req.sig) THEN UNAUTHORIZED
    ELSE IF secret = NoSecret THEN INTERNAL_SERVER_ERROR
    ELSE IF ~VerifySignature(req.body, secret, req.sig.value) THEN UNAUTHORIZED
    ELSE IF ~HeaderGet(req.event) THEN BAD_REQUEST
    ELSE IF ~HeaderGet(req.delivery) THEN BAD_REQUEST
    ELSE 0

\* Steps 1 and 2 of handle: the status the request is rejected with before
\* the store is consulted, 0 when it passes
Precheck(req) ==
    IF ~HeaderGet(req.sig) THEN UNAUTHORIZED
    ELSE IF ~HeaderGet(req.event) THEN BAD_REQUEST
    ELSE IF ~HeaderGet(req.delivery) THEN BAD_REQUEST
    ELSE IF secret = NoSecret THEN INTERNAL_SERVER_ERROR
    ELSE IF ~VerifySignature(req.body, secret, req.sig.value) THEN UNAUTHORIZED
    ELSE 0

PrecheckLog(req) ==
    IF HeaderGet(req.sig) /\ HeaderGet(req.event) /\ HeaderGet(req.delivery)
       /\ secret = NoSecret
    THEN "GITHUB_WEBHOOK_SECRET not set"
    ELSE None

\* A receiver that parses the payload before it looks the delivery up
HandleCheckParseFirst(r, req) ==
    /\ rcv[r].pc = "idle"
    /\ resp = NoResponse
    /\ LET code == Precheck(req)
           d == req.delivery.value[1]
       IN  IF code # 0
           THEN /\ resp' = [req |-> req, code |-> code, log |-> PrecheckLog(req)]
                /\ rcv' = rcv
           ELSE IF ~ParseJson(req.body).ok
           THEN /\ resp' = [req |-> req, code |-> BAD_REQUEST,
                            log |-> "Webhook payload parse error"]
                /\ rcv' = rcv
           ELSE \E storeUp \in BOOLEAN :
                IF ~storeUp
                THEN /\ resp' = [req |-> req, code |-> INTERNAL_SERVER_ERROR,
                                 log |-> "Idempotency check failed"]
                     /\ rcv' = rcv
                ELSE IF Exists(d)
                THEN /\ resp' = [req |-> req, code |-> OK, log |-> None]
                     /\ rcv' = rcv
                ELSE /\ resp' = NoResponse
                     /\ rcv' = [rcv EXCEPT ![r] = [pc |-> "store", req |-> req]]
    /\ returned' = NoReturn
    /\ applied' = NoCall
    /\ UNCHANGED <<config, linked, client, events, links, jobs, now, procs, runners, dispatched>>

\* Steps 1-3: header extraction, signature verification, idempotency check.
\* storeUp: whether the SELECT succeeds.
HandleCheck(r, req) ==
    /\ rcv[r].pc = "idle"
    /\ resp = NoResponse
    /\ LET code == Precheck(req)
           d == req.delivery.value[1]
       IN  IF code # 0
           THEN /\ resp' = [req |-> req, code |-> code, log |-> PrecheckLog(req)]
                /\ rcv' = rcv
           ELSE \E storeUp \in BOOLEAN :
                IF ~storeUp
                THEN /\ resp' = [req |-> req, code |-> INTERNAL_SERVER_ERROR,
                                 log |-> "Idempotency check failed"]
                     /\ rcv' = rcv
                ELSE IF Exists(d)
                THEN /\ resp' = [req |-> req, code |-> OK, log |-> None]
                     /\ rcv' = rcv
                ELSE /\ resp' = NoResponse
                     /\ rcv' = [rcv EXCEPT ![r] = [pc |-> "store", req |-> req]]
    /\ returned' = NoReturn
    /\ applied' = NoCall
    /\ UNCHANGED <<config, linked, client, events, links, jobs, now, procs, runners, dispatched>>

\* The store keeps one WebhookEvent per delivery_id: an INSERT of a
\* delivery_id that has a row fails
KeyViolation(d) == RowsOf(d) # {}

\* A receiver whose INSERT ignores a conflict (ON CONFLICT DO NOTHING) and
\* that goes on to spawn and acknowledge
HandleStoreOnConflict(r, storeUp) ==
    /\ rcv[r].pc = "store"
    /\ LET req == rcv[r].req
           parsed == ParseJson(req.body)
           d == req.delivery.value[1]
           slot == Len(events) + 1
       IN  IF ~parsed.ok
           THEN /\ resp' = [req |-> req, code |-> BAD_REQUEST,
                            log |-> "Webhook payload parse error"]
                /\ UNCHANGED <<events, procs>>
           ELSE IF ~storeUp
           THEN /\ resp' = [req |-> req, code |-> INTERNAL_SERVER_ERROR,
                            log |-> "Failed to store webhook event"]
                /\ UNCHANGED <<events, procs>>
           ELSE /\ events' = IF KeyViolation(d) THEN events
                             ELSE Append(events,
                                         EventRow(d, req.event.value[1], parsed.doc))
                /\ procs' = [procs EXCEPT ![Task(slot)] = StartProc(d)]
                /\ resp' = [req |-> req, code |-> OK,
                            log |-> "Received GitHub webhook"]
    /\ rcv' = [rcv EXCEPT ![r] = IdleReceiver]
    /\ returned' = NoReturn
    /\ applied' = NoCall
    /\ UNCHANGED <<config, linked, client, links, jobs, now, runners, dispatched>>

\* A receiver that acknowledges and spawns whether or not the INSERT went
\* through
HandleStoreLenient(r, storeUp) ==
    /\ rcv[r].pc = "store"
    /\ LET req == rcv[r].req
           parsed == ParseJson(req.body)
           d == req.delivery.value[1]
           slot == Len(events) + 1
       IN  IF ~parsed.ok
           THEN /\ resp' = [req |-> req, code |-> BAD_REQUEST,
                            log |-> "Webhook payload parse error"]
                /\ UNCHANGED <<events, procs>>
           ELSE /\ events' = IF storeUp /\ ~KeyViolation(d)
                             THEN Append(events,
                                         EventRow(d, req.event.value[1], parsed.doc))
                             ELSE events
                /\ procs' = [procs EXCEPT ![Task(slot)] = StartProc(d)]
                /\ resp' = [req |-> req, code |-> OK,
                            log |-> "Received GitHub webhook"]
    /\ rcv' = [rcv EXCEPT ![r] = IdleReceiver]
    /\ returned' = NoReturn
    /\ applied' = NoCall
    /\ UNCHANGED <<config, linked, client, links, jobs, now, runners, dispatched>>

\* Steps 4-7: parse the payload, store the raw event, spawn the processor,
\* respond.  storeUp: whether the store is reachable; the INSERT fails when
\* it is not, and when the delivery_id already has a row.
HandleStore(r, storeUp) ==
    /\ rcv[r].pc = "store"
    /\ LET req == rcv[r].req
           parsed == ParseJson(req.body)
           d == req.delivery.value[1]
           slot == Len(events) + 1
       IN  IF ~parsed.ok
           THEN /\ resp' = [req |-> req, code |-> BAD_REQUEST,
                            log |-> "Webhook payload parse error"]
                /\ UNCHANGED <<events, procs>>
           ELSE IF ~storeUp \/ KeyViolation(d)
           THEN /\ resp' = [req |-> req, code |-> INTERNAL_SERVER_ERROR,
                            log |-> "Failed to store webhook event"]
                /\ UNCHANGED <<events, procs>>
           ELSE /\ events' = Append(events,
                                    EventRow(d, req.event.value[1], parsed.doc))
                /\ procs' = [procs EXCEPT ![Task(slot)] = StartProc(d)]
                /\ resp' = [req |-> req, code |-> OK,
                            log |-> "Received GitHub webhook"]
    /\ rcv' = [rcv EXCEPT ![r] = IdleReceiver]
    /\ returned' = NoReturn
    /\ applied' = NoCall
    /\ UNCHANGED <<config, linked, client, links, jobs, now, runners, dispatched>>

\* The response has left the server
Sent ==
    /\ resp # NoResponse
    /\ Quiet
    /\ UNCHANGED <<config, linked, client, events, links, jobs, now, rcv, procs, runners,
                   dispatched>>

-----------------------------------------------------------------------------
(* Status mapper *)

Null == -1

JString(s) == <<"string", s>>
JNull == <<"null", "">>
JNumber == <<"number", "1">>

\* A lock that is over the second it expires
LockFreeEarly(lock, t) == lock = Null \/ lock <= t

\* sync_lock_until IS NULL OR sync_lock_until < now()
LockFree(lock, t) == lock = Null \/ lock < t

\* A mapper that reports an update of no row as an error
ApplyStatusMappingStrict(iss, item, smap, key, t, storeUp) ==
    IF key \notin DOMAIN smap \/ smap[key][1] # "string"
    THEN [ok |-> TRUE, issues |-> iss, rows |-> 0]
    ELSE IF storeUp /\ item \in DOMAIN iss
            /\ (iss[item].sync_lock_until = -1 \/ iss[item].sync_lock_until < t)
    THEN [ok |-> TRUE,
          issues |-> [iss EXCEPT ![item] =
                         [status |-> smap[key][2], sync_source |-> "github",
                          sync_lock_until |-> t + LOCK_SECONDS]],
          rows |-> 1]
    ELSE [ok |-> FALSE, issues |-> iss, rows |-> 0]

\* A mapper that writes whatever value the key maps to
ApplyStatusMappingAnyValue(iss, item, smap, key, t, storeUp) ==
    IF key \notin DOMAIN smap
    THEN [ok |-> TRUE, issues |-> iss, rows |-> 0]
    ELSE IF ~storeUp
    THEN [ok |-> FALSE, issues |-> iss, rows |-> 0]
    ELSE IF item \in DOMAIN iss /\ LockFree(iss[item].sync_lock_until, t)
    THEN [ok |-> TRUE,
          issues |-> [iss EXCEPT ![item] =
                         [status |-> smap[key][2], sync_source |-> "github",
                          sync_lock_until |-> t + LOCK_SECONDS]],
          rows |-> 1]
    ELSE [ok |-> TRUE, issues |-> iss, rows |-> 0]

\* apply_status_mapping(issue_id, status_mapping, mapping_key) at store time
\* t.  storeUp: whether the UPDATE succeeds.  rows: rows affected.
ApplyStatusMapping(iss, item, smap, key, t, storeUp) ==
    IF key \notin DOMAIN smap \/ smap[key][1] # "string"
    THEN [ok |-> TRUE, issues |-> iss, rows |-> 0]
    ELSE IF ~storeUp
    THEN [ok |-> FALSE, issues |-> iss, rows |-> 0]
    ELSE IF item \in DOMAIN iss /\ LockFree(iss[item].sync_lock_until, t)
    THEN [ok |-> TRUE,
          issues |-> [iss EXCEPT ![item] =
                         [status |-> smap[key][2], sync_source |-> "github",
                          sync_lock_until |-> t + LOCK_SECONDS]],
          rows |-> 1]
    ELSE [ok |-> TRUE, issues |-> iss, rows |-> 0]

\* A caller applies the status mapping of the repository's mapping to an item
StatusCall(item, key, storeUp) ==
    /\ LET m == CHOOSE x \in mappings : TRUE
           out == ApplyStatusMapping(issues, item, m.status_mapping, key, now,
                                     storeUp)
       IN  /\ issues' = out.issues
           /\ applied' = [item |-> item, key |-> key, at |-> now,
                           storeUp |-> storeUp, ok |-> out.ok, rows |-> out.rows]
    /\ resp' = NoResponse
    /\ returned' = NoReturn
    /\ UNCHANGED <<config, linked, client, events, prLinks, commitLinks, jobs, now, rcv, procs,
                   runners, dispatched>>

-----------------------------------------------------------------------------
(* Issue linker.  A text is a sequence of tokens: a display-id-like token   *)
(* (letters, dash, digits: what ISSUE_ID_REGEX captures), a closing-keyword *)
(* reference (what GITHUB_CLOSE_REGEX captures) or a plain word.  A branch  *)
(* name is a sequence of '/'-separated segments, each a text (tokens        *)
(* above, with the payloads).                                               *)

\* to_uppercase
ToUpper(p) ==
    CASE p = "baa" -> "BAA"
      [] p = "ops" -> "OPS"
      [] OTHER -> p

\* format!("{}-{}", prefix.to_uppercase(), digits)
DisplayId(tok) == <<ToUpper(tok.prefix), tok.num>>

\* issues rows: id, project_id, display_id
IssueCatalog ==
    {[id |-> 1, project_id |-> 1, display_id |-> <<"BAA", 1>>],
     [id |-> 2, project_id |-> 1, display_id |-> <<"BAA", 2>>],
     [id |-> 3, project_id |-> 2, display_id |-> <<"OPS", 1>>]}

\* github_issue_links rows
IssueLinks ==
    {[github_repo_id |-> 1, github_issue_number |-> 7, issue_id |-> 2],
     [github_repo_id |-> 2, github_issue_number |-> 8, issue_id |-> 1]}

\* SELECT id FROM issues WHERE project_id = $1 AND display_id = $2
\* (0: no row)
find_issue_by_display_id(project_id, display_id) ==
    LET hits == {i \in IssueCatalog : /\ i.project_id = project_id
                                      /\ i.display_id = display_id}
    IN  IF hits = {} THEN 0 ELSE (CHOOSE i \in hits : TRUE).id

\* SELECT issue_id FROM github_issue_links WHERE github_repo_id = $1 AND
\* github_issue_number = $2 (0: no row)
find_issue_by_github_number(github_repo_id, number) ==
    LET hits == {l \in IssueLinks : /\ l.github_repo_id = github_repo_id
                                    /\ l.github_issue_number = number}
    IN  IF hits = {} THEN 0 ELSE (CHOOSE l \in hits : TRUE).issue_id

\* BRANCH_ISSUE_REGEX.captures(branch_name): the id that opens the first
\* segment opened by one, as a text of one token; the empty text if none
BranchCapture(branch) ==
    LET opened == {i \in 1..Len(branch) :
                      Len(branch[i]) > 0 /\ branch[i][1].k = "id"}
    IN  IF opened = {} THEN <<>>
        ELSE <<branch[CHOOSE i \in opened : \A k \in opened : i <= k][1]>>

\* Where a scan of the linker stands: found says the search is over, ok that
\* no lookup failed, n counts the lookups made
Scan(found, ok, issue, n) == [found |-> found, ok |-> ok, issue |-> issue, n |-> n]

RECURSIVE ScanIds(_, _, _, _, _)
\* for cap in ISSUE_ID_REGEX.captures_iter(text), from token i on, after n
\* lookups; lookup number failLookup fails in the store
ScanIds(project_id, text, i, n, failLookup) ==
    IF i > Len(text) THEN Scan(FALSE, TRUE, 0, n)
    ELSE IF text[i].k # "id"
    THEN ScanIds(project_id, text, i + 1, n, failLookup)
    ELSE IF failLookup = n + 1 THEN Scan(TRUE, FALSE, 0, n + 1)
    ELSE IF find_issue_by_display_id(project_id, DisplayId(text[i])) # 0
    THEN Scan(TRUE, TRUE,
              find_issue_by_display_id(project_id, DisplayId(text[i])), n + 1)
    ELSE ScanIds(project_id, text, i + 1, n + 1, failLookup)

RECURSIVE ScanCloses(_, _, _, _, _)
\* for cap in GITHUB_CLOSE_REGEX.captures_iter(pr_body)
ScanCloses(github_repo_id, text, i, n, failLookup) ==
    IF i > Len(text) THEN Scan(FALSE, TRUE, 0, n)
    ELSE IF text[i].k # "close" \/ ~(text[i].num > 0)
    THEN ScanCloses(github_repo_id, text, i + 1, n, failLookup)
    ELSE IF failLookup = n + 1 THEN Scan(TRUE, FALSE, 0, n + 1)
    ELSE IF find_issue_by_github_number(github_repo_id, text[i].num) # 0
    THEN Scan(TRUE, TRUE,
              find_issue_by_github_number(github_repo_id, text[i].num), n + 1)
    ELSE ScanCloses(github_repo_id, text, i + 1, n + 1, failLookup)

\* A linker that reads the title before the branch name
find_linked_issue_title_first(m, branch_name, pr_title, pr_body, failLookup) ==
    LET t == ScanIds(m.project_id, pr_title, 1, 0, failLookup)
        b == ScanIds(m.project_id, BranchCapture(branch_name), 1, t.n,
                     failLookup)
        d == ScanIds(m.project_id, pr_body, 1, b.n, failLookup)
    IN  IF t.found THEN t
        ELSE IF b.found THEN b
        ELSE IF d.found THEN d
        ELSE ScanCloses(m.github_repo_id, pr_body, 1, d.n, failLookup)

\* A linker for which a missing IssueLink is an error
find_linked_issue_strict(m, branch_name, pr_title, pr_body, failLookup) ==
    LET b == ScanIds(m.project_id, BranchCapture(branch_name), 1, 0,
                     failLookup)
        t == ScanIds(m.project_id, pr_title, 1, b.n, failLookup)
        d == ScanIds(m.project_id, pr_body, 1, t.n, failLookup)
        c == ScanCloses(m.github_repo_id, pr_body, 1, d.n, failLookup)
    IN  IF b.found THEN b
        ELSE IF t.found THEN t
        ELSE IF d.found THEN d
        ELSE IF c.found THEN c
        ELSE Scan(TRUE, c.n = d.n, 0, c.n)

\* find_linked_issue(pool, mapping, branch_name, pr_title, pr_body):
\* ok: Ok(..) or Err; issue: Some(id) or None (0)
find_linked_issue(m, branch_name, pr_title, pr_body, failLookup) ==
    LET b == ScanIds(m.project_id, BranchCapture(branch_name), 1, 0,
                     failLookup)
        t == ScanIds(m.project_id, pr_title, 1, b.n, failLookup)
        d == ScanIds(m.project_id, pr_body, 1, t.n, failLookup)
    IN  IF b.found THEN b
        ELSE IF t.found THEN t
        ELSE IF d.found THEN d
        ELSE ScanCloses(m.github_repo_id, pr_body, 1, d.n, failLookup)

NoLinkCall == [branch |-> <<>>, title |-> <<>>, body |-> <<>>, failLookup |-> 0,
               called |-> FALSE, ok |-> TRUE, issue |-> 0]

\* A caller runs find_linked_issue on the arguments at hand
LinkCall ==
    /\ ~linked.called
    /\ LET m == CHOOSE x \in mappings : TRUE
           out == find_linked_issue(m, linked.branch, linked.title, linked.body,
                                    linked.failLookup)
       IN  linked' = [linked EXCEPT !.called = TRUE, !.ok = out.ok,
                                    !.issue = out.issue]
    /\ UNCHANGED <<config, client, events, links, jobs, now, rcv, outputs, procs, runners,
                   dispatched>>

-----------------------------------------------------------------------------
(* generate_branch_name.  A text is a sequence of characters; a character   *)
(* is named by a string, "e_acute" and "E_ACUTE" naming the letter e with   *)
(* an acute accent, which takes two bytes in UTF-8                          *)

SLUG_MAX == 50

\* char::to_lowercase on the characters at hand
ToLowercase(c) ==
    CASE c = "A" -> "a"
      [] c = "B" -> "b"
      [] c = "F" -> "f"
      [] c = "L" -> "l"
      [] c = "E_ACUTE" -> "e_acute"
      [] OTHER -> c

\* char::is_alphanumeric (Unicode letters and digits)
IsAlphanumeric(c) == c \notin {"!", "-", " "}

\* char::len_utf8
LenUtf8(c) == IF c \in {"e_acute", "E_ACUTE"} THEN 2 ELSE 1

Lowercased(text) == [i \in 1..Len(text) |-> ToLowercase(text[i])]

\* str::split('-')
RECURSIVE SplitDash(_, _, _)
SplitDash(text, i, cur) ==
    IF i > Len(text) THEN <<cur>>
    ELSE IF text[i] = "-" THEN <<cur>> \o SplitDash(text, i + 1, <<>>)
    ELSE SplitDash(text, i + 1, Append(cur, text[i]))

\* join("-")
RECURSIVE JoinDash(_)
JoinDash(parts) ==
    IF parts = <<>> THEN <<>>
    ELSE IF Len(parts) = 1 THEN parts[1]
    ELSE parts[1] \o <<"-">> \o JoinDash(Tail(parts))

\* str::len: the length in bytes
RECURSIVE ByteLen(_)
ByteLen(text) ==
    IF text = <<>> THEN 0 ELSE LenUtf8(Head(text)) + ByteLen(Tail(text))

\* &text[..n]: the first n bytes; panics when byte n is inside a character.
\* k characters of the text make `bytes` bytes
RECURSIVE ByteSlice(_, _, _, _)
ByteSlice(text, n, k, bytes) ==
    IF bytes = n THEN [ok |-> TRUE, value |-> SubSeq(text, 1, k)]
    ELSE IF bytes > n THEN [ok |-> FALSE, value |-> <<>>]
    ELSE ByteSlice(text, n, k + 1, bytes + LenUtf8(text[k + 1]))

\* trim_end_matches('-')
RECURSIVE TrimEndDash(_)
TrimEndDash(text) ==
    IF text # <<>> /\ text[Len(text)] = "-"
    THEN TrimEndDash(SubSeq(text, 1, Len(text) - 1))
    ELSE text

\* generate_branch_name(display_id, title); ok = FALSE: the call panics
generate_branch_name(display_id, title) ==
    LET lower == Lowercased(title)
        dashed == [i \in 1..Len(lower) |->
                     IF IsAlphanumeric(lower[i]) THEN lower[i] ELSE "-"]
        slug == JoinDash(SelectSeq(SplitDash(dashed, 1, <<>>),
                                   LAMBDA part : part # <<>>))
        cut == IF ByteLen(slug) > SLUG_MAX THEN ByteSlice(slug, SLUG_MAX, 0, 0)
               ELSE [ok |-> TRUE, value |-> slug]
    IN  IF cut.ok
        THEN [ok |-> TRUE,
              name |-> Lowercased(display_id) \o <<"-">> \o TrimEndDash(cut.value)]
        ELSE [ok |-> FALSE, name |-> <<>>]

\* A caller runs generate_branch_name on the arguments at hand
BranchCall ==
    /\ linked # NoLinkCall
    /\ ~linked.called
    /\ LET out == generate_branch_name(linked.display_id, linked.title)
       IN  linked' = [linked EXCEPT !.called = TRUE, !.ok = out.ok,
                                    !.name = out.name]
    /\ UNCHANGED <<config, client, events, links, jobs, now, rcv, outputs, procs, runners,
                   dispatched>>

-----------------------------------------------------------------------------
(* Installation token cache (GitHubClient).  Times are seconds of the       *)
(* process clock; a token is the number of its issue by GitHub.             *)

InstallationIds == {1, 2}
ApiCallers == {1, 2}

\* No entry of the HashMap for an installation id
NoToken == [token |-> 0, expires_at |-> 0]

NoJwt == [iat |-> 0, exp |-> 0, iss |-> None]

\* create_app_jwt at time t
create_app_jwt(t) ==
    [iat |-> t - JWT_BACKDATE, exp |-> t + JWT_LIFETIME, iss |-> "app_id"]

\* An RFC 3339 timestamp as text, and its parse
Rfc3339(t) == <<"T", t>>
ParseRfc3339(chars) ==
    IF Len(chars) = 2 /\ chars[1] = "T"
    THEN [ok |-> TRUE, time |-> chars[2]]
    ELSE [ok |-> FALSE, time |-> 0]

\* The answer to POST /app/installations/{id}/access_tokens: a failure, or a
\* JSON object with a token (0: no string) and an expires_at field
NoAnswer == [ok |-> FALSE, token |-> 0, expires_at |-> Absent]

\* What GitHub can answer at time t when n is the next token it would issue
Answers(t, n) ==
    {NoAnswer, [NoAnswer EXCEPT !.ok = TRUE]}
    \cup {[ok |-> TRUE, token |-> n, expires_at |-> x] :
             x \in {Absent, Text(<<"soon">>),
                    Text(Rfc3339(t + REFRESH_MARGIN)),
                    Text(Rfc3339(t + REFRESH_MARGIN + MINUTE))}}

IdleCall == [pc |-> "idle", installation_id |-> 0, app_jwt |-> NoJwt,
             answer |-> NoAnswer, token |-> 0, expires_at |-> 0]

NoClient == [caller |-> 0, installation_id |-> 0, token |-> 0, ok |-> TRUE,
             reused |-> FALSE]

\* A cache that hands out a token until the second it expires
FreshEnoughUnexpired(cached, t) == cached.expires_at > t

\* cached.expires_at > Utc::now() + minutes(5)
FreshEnough(cached, t) == cached.expires_at > t + REFRESH_MARGIN

\* expires_at of the token of an answer received at time t
ExpiresAt(answer, t) ==
    IF HeaderGet(answer.expires_at) /\ ParseRfc3339(answer.expires_at.value).ok
    THEN ParseRfc3339(answer.expires_at.value).time
    ELSE t + FALLBACK_LIFETIME

\* for_installation up to the token request: the cache is read under the
\* read lock; a fresh entry is returned, otherwise an App JWT is signed
TokenCheck(c, installation_id) ==
    /\ calls[c].pc = "idle"
    /\ IF token_cache[installation_id] # NoToken
          /\ FreshEnough(token_cache[installation_id], now)
       THEN /\ built' = [caller |-> c, installation_id |-> installation_id,
                         token |-> token_cache[installation_id].token,
                         ok |-> TRUE, reused |-> TRUE]
            /\ UNCHANGED calls
       ELSE /\ calls' = [calls EXCEPT ![c] =
                            [IdleCall EXCEPT !.pc = "exchange",
                                             !.installation_id = installation_id,
                                             !.app_jwt = create_app_jwt(now)]]
            /\ built' = NoClient
    /\ UNCHANGED <<config, linked, token_cache, minted, events, links, jobs, now,
                   rcv, outputs, procs, runners, dispatched>>

\* The answer of GitHub arrives: the token is read and its expiry computed
TokenExchange(c, answer) ==
    /\ calls[c].pc = "exchange"
    /\ IF ~answer.ok \/ answer.token = 0
       THEN /\ calls' = [calls EXCEPT ![c] = IdleCall]
            /\ built' = [caller |-> c,
                         installation_id |-> calls[c].installation_id,
                         token |-> 0, ok |-> FALSE, reused |-> FALSE]
            /\ UNCHANGED minted
       ELSE /\ calls' = [calls EXCEPT ![c].pc = "store",
                                      ![c].answer = answer,
                                      ![c].token = answer.token,
                                      ![c].expires_at = ExpiresAt(answer, now)]
            /\ built' = NoClient
            /\ minted' = minted + 1
    /\ UNCHANGED <<config, linked, token_cache, events, links, jobs, now, rcv,
                   outputs, procs, runners, dispatched>>

\* An insert that keeps the entry that expires later
TokenStoreLatest(c) ==
    /\ calls[c].pc = "store"
    /\ token_cache' = [token_cache EXCEPT ![calls[c].installation_id] =
                           IF @.expires_at > calls[c].expires_at THEN @
                           ELSE [token |-> calls[c].token,
                                 expires_at |-> calls[c].expires_at]]
    /\ built' = [caller |-> c, installation_id |-> calls[c].installation_id,
                 token |-> calls[c].token, ok |-> TRUE, reused |-> FALSE]
    /\ calls' = [calls EXCEPT ![c] = IdleCall]
    /\ UNCHANGED <<config, linked, minted, events, links, jobs, now, rcv, outputs,
                   procs, runners, dispatched>>

\* The entry is inserted under the write lock and the client is returned
TokenStore(c) ==
    /\ calls[c].pc = "store"
    /\ token_cache' = [token_cache EXCEPT ![calls[c].installation_id] =
                           [token |-> calls[c].token,
                            expires_at |-> calls[c].expires_at]]
    /\ built' = [caller |-> c, installation_id |-> calls[c].installation_id,
                 token |-> calls[c].token, ok |-> TRUE, reused |-> FALSE]
    /\ calls' = [calls EXCEPT ![c] = IdleCall]
    /\ UNCHANGED <<config, linked, minted, events, links, jobs, now, rcv, outputs,
                   procs, runners, dispatched>>

\* A minute of the process clock passes
MinutePasses ==
    /\ now < MaxMinutes * MINUTE
    /\ now' = now + MINUTE
    /\ built' = NoClient
    /\ UNCHANGED <<config, linked, token_cache, calls, minted, events, links, jobs,
                   rcv, outputs, procs, runners, dispatched>>

-----------------------------------------------------------------------------
(* Webhook processor: the handlers.  failAt numbers the store query of the  *)
(* handler that fails (0: none); a handler that stops there keeps the       *)
(* writes it made before.                                                   *)

StoreError == "store error"
StatusWriteError == "store error on the status update"
FaultPoints == {0, 1, 2, 3, 4, 5}

Outcome(ok, err, pl, cl, iss) ==
    [ok |-> ok, err |-> err, prLinks |-> pl, commitLinks |-> cl, issues |-> iss]

\* A lookup that reads inactive mappings too
AnyMappings(repo) == {m \in mappings : m.github_repo_id = repo}

\* SELECT * FROM github_repo_mappings WHERE github_repo_id = $1 AND is_active
ActiveMappings(repo) ==
    {m \in mappings : m.github_repo_id = repo /\ m.is_active}

\* A state computed with the draft flag read before the action
PrStateDraftFirst(action, merged, draft) ==
    IF draft THEN "draft"
    ELSE IF action = "closed" /\ merged = "true" THEN "merged"
    ELSE IF action = "closed" THEN "closed"
    ELSE "open"

PrState(action, merged, draft) ==
    IF action = "closed" /\ merged = "true" THEN "merged"
    ELSE IF action = "closed" THEN "closed"
    ELSE IF draft THEN "draft"
    ELSE "open"

MappingKey(prState) ==
    IF prState \in {"open", "draft"} THEN "pr_opened"
    ELSE IF prState = "merged" THEN "pr_merged"
    ELSE "pr_closed"

\* A store that inserts a row for every pull_request event it processes
UpsertPrLinkAlways(rows, new) ==
    rows \cup {[new EXCEPT !.id = Cardinality(rows) + 1]}

\* An upsert that leaves the state of a merged or closed PrLink alone
UpsertPrLinkTerminal(rows, new) ==
    IF \E row \in rows : row.github_repo_id = new.github_repo_id
                         /\ row.pr_number = new.pr_number
    THEN {IF row.github_repo_id = new.github_repo_id
             /\ row.pr_number = new.pr_number
          THEN [row EXCEPT !.pr_title = new.pr_title,
                           !.pr_state = IF @ \in {"merged", "closed"}
                                        THEN @ ELSE new.pr_state,
                           !.additions = new.additions]
          ELSE row : row \in rows}
    ELSE rows \cup {[new EXCEPT !.id = Cardinality(rows) + 1]}

\* An upsert that re-points the PrLink to the item of the latest event
UpsertPrLinkRepoint(rows, new) ==
    IF \E row \in rows : row.github_repo_id = new.github_repo_id
                         /\ row.pr_number = new.pr_number
    THEN {IF row.github_repo_id = new.github_repo_id
             /\ row.pr_number = new.pr_number
          THEN [row EXCEPT !.pr_title = new.pr_title, !.pr_state = new.pr_state,
                           !.additions = new.additions,
                           !.issue_id = new.issue_id]
          ELSE row : row \in rows}
    ELSE rows \cup {[new EXCEPT !.id = Cardinality(rows) + 1]}

\* INSERT INTO github_pr_links ... ON CONFLICT (github_repo_id, pr_number)
\* DO UPDATE SET pr_title, pr_state, additions, ...; a new row gets a
\* fresh id
UpsertPrLink(rows, new) ==
    IF \E row \in rows : row.github_repo_id = new.github_repo_id
                         /\ row.pr_number = new.pr_number
    THEN {IF row.github_repo_id = new.github_repo_id
             /\ row.pr_number = new.pr_number
          THEN [row EXCEPT !.pr_title = new.pr_title, !.pr_state = new.pr_state,
                           !.additions = new.additions]
          ELSE row : row \in rows}
    ELSE rows \cup {[new EXCEPT !.id = Cardinality(rows) + 1]}

\* UPDATE github_pr_links SET merged_at, merged_by WHERE (repo, pr_number)
SetMerged(rows, repo, pr) ==
    {IF row.github_repo_id = repo /\ row.pr_number = pr
     THEN [row EXCEPT !.merged = TRUE] ELSE row : row \in rows}

\* handle_pull_request_event on the PrLink rows pl and the issues iss at
\* store time t
PullRequestEffect(pl, iss, t, e, failAt) ==
    LET doc == e.payload
        same == [ok |-> TRUE, err |-> None, prLinks |-> pl, issues |-> iss]
        down == [ok |-> FALSE, err |-> StoreError, prLinks |-> pl, issues |-> iss]
    IN  IF doc.repo = 0
        THEN [down EXCEPT !.err = "Missing repository.id"]
        ELSE IF failAt = 1 THEN down
        ELSE IF ActiveMappings(doc.repo) = {} THEN same
        ELSE
        LET m == CHOOSE x \in ActiveMappings(doc.repo) : TRUE
            item == find_linked_issue(m, doc.branch, doc.title, doc.body, 0).issue
            state == PrState(doc.action, doc.merged, doc.draft)
            upserted == UpsertPrLink(pl,
                     [id |-> 0, issue_id |-> item, github_repo_id |-> doc.repo,
                      pr_number |-> doc.pr, pr_title |-> doc.title,
                      pr_state |-> state, merged |-> FALSE,
                      head_branch |-> doc.branch,
                      author_login |-> IF doc.author = None THEN "unknown"
                                       ELSE doc.author,
                      additions |-> doc.additions,
                      link_method |-> "branch_name"])
            sm == ApplyStatusMapping(iss, item, m.status_mapping,
                                     MappingKey(state), t, failAt # 4)
        IN  IF ~m.sync_prs THEN same
            ELSE IF failAt = 2 THEN down
            ELSE IF item = 0 THEN same
            ELSE IF failAt = 3 THEN down
            ELSE IF ~sm.ok THEN [down EXCEPT !.prLinks = upserted]
            ELSE IF doc.action = "closed" /\ doc.merged = "true"
            THEN IF failAt = 5
                 THEN [down EXCEPT !.prLinks = upserted, !.issues = sm.issues]
                 ELSE [same EXCEPT !.prLinks = SetMerged(upserted, doc.repo, doc.pr),
                                   !.issues = sm.issues]
            ELSE [same EXCEPT !.prLinks = upserted, !.issues = sm.issues]

handle_pull_request_event(e, failAt) ==
    LET out == PullRequestEffect(prLinks, issues, now, e, failAt)
    IN  Outcome(out.ok, out.err, out.prLinks, commitLinks, out.issues)

\* A store that re-points a recorded commit to the item of the latest push
InsertCommitLinkRepoint(rows, new) ==
    {row \in rows : ~(row.github_repo_id = new.github_repo_id
                      /\ row.sha = new.sha)} \cup {new}

\* INSERT INTO github_commit_links ... ON CONFLICT (github_repo_id, sha)
\* DO NOTHING
InsertCommitLink(rows, new) ==
    IF \E row \in rows : row.github_repo_id = new.github_repo_id
                         /\ row.sha = new.sha
    THEN rows
    ELSE rows \cup {new}

\* The commits loop of handle_push_event from commit i on, on the CommitLink
\* rows cl; query numbers 2i and 2i+1 are the lookup and the insert of
\* commit i
RECURSIVE PushCommits(_, _, _, _, _)
PushCommits(m, doc, i, cl, failAt) ==
    IF i > Len(doc.commits) THEN [ok |-> TRUE, err |-> None, commitLinks |-> cl]
    ELSE IF failAt = 2 * i
    THEN [ok |-> FALSE, err |-> StoreError, commitLinks |-> cl]
    ELSE IF find_linked_issue(m, doc.branch, doc.commits[i].message, <<>>,
                              0).issue = 0
    THEN PushCommits(m, doc, i + 1, cl, failAt)
    ELSE IF failAt = 2 * i + 1
    THEN [ok |-> FALSE, err |-> StoreError, commitLinks |-> cl]
    ELSE PushCommits(m, doc, i + 1,
                     InsertCommitLink(cl,
                         [issue_id |-> find_linked_issue(m, doc.branch,
                                           doc.commits[i].message, <<>>, 0).issue,
                          github_repo_id |-> doc.repo,
                          sha |-> doc.commits[i].sha]),
                     failAt)

\* A push handler that skips the mappings that sync to GitHub only
PushEffectDirected(cl, e, failAt) ==
    LET doc == e.payload
        inbound == {m \in ActiveMappings(doc.repo) :
                       m.sync_direction # "baaton_to_github"}
    IN  IF failAt = 1
        THEN [ok |-> FALSE, err |-> StoreError, commitLinks |-> cl]
        ELSE IF inbound = {}
        THEN [ok |-> TRUE, err |-> None, commitLinks |-> cl]
        ELSE PushCommits(CHOOSE x \in inbound : TRUE, doc, 1, cl, failAt)

\* handle_push_event on the CommitLink rows cl
PushEffect(cl, e, failAt) ==
    LET doc == e.payload
    IN  IF failAt = 1
        THEN [ok |-> FALSE, err |-> StoreError, commitLinks |-> cl]
        ELSE IF ActiveMappings(doc.repo) = {}
        THEN [ok |-> TRUE, err |-> None, commitLinks |-> cl]
        ELSE PushCommits(CHOOSE x \in ActiveMappings(doc.repo) : TRUE,
                         doc, 1, cl, failAt)

handle_push_event(e, failAt) ==
    LET out == PushEffect(commitLinks, e, failAt)
    IN  Outcome(out.ok, out.err, prLinks, out.commitLinks, issues)

\* The dispatch on event_type in process_webhook_event
\* "closed" => "issue_closed", "reopened" => "issue_opened", with closed
\* taken for every action
IssueKeyClosed(action) == "issue_closed"

\* "closed" => "issue_closed", "reopened" => "issue_opened"
IssueKey(action) ==
    IF action = "closed" THEN "issue_closed" ELSE "issue_opened"

\* handle_issues_event on issues iss at time t; failAt: the store statement
\* that fails (1 the mapping, 2 the link, 3 the status update), 0 for none
IssuesEffect(iss, t, e, failAt) ==
    LET doc == e.payload
        same == [ok |-> TRUE, err |-> None, issues |-> iss]
        down == [ok |-> FALSE, err |-> StoreError, issues |-> iss]
    IN  IF failAt = 1 THEN down
        ELSE IF ActiveMappings(doc.repo) = {} THEN same
        ELSE
        LET m == CHOOSE x \in ActiveMappings(doc.repo) : TRUE
            existing == find_issue_by_github_number(doc.repo, doc.issue)
            sm == ApplyStatusMapping(iss, existing, m.status_mapping,
                                     IssueKey(doc.action), t, failAt # 3)
        IN  IF ~m.sync_issues THEN same
            ELSE IF m.sync_direction = "baaton_to_github" THEN same
            ELSE IF failAt = 2 THEN down
            ELSE IF doc.action \notin {"closed", "reopened"} THEN same
            ELSE IF existing = 0 THEN same
            ELSE IF ~sm.ok THEN down
            ELSE [same EXCEPT !.issues = sm.issues]

handle_issues_event(e, failAt) ==
    LET out == IssuesEffect(issues, now, e, failAt)
    IN  Outcome(out.ok, out.err, prLinks, commitLinks, out.issues)

\* UPDATE github_installations SET status = $2 WHERE installation_id = $1
\* An UPDATE that leaves a removed installation alone
SetInstallationStatusLive(inst, id, status) ==
    [i \in DOMAIN inst |->
        IF i = id /\ inst[i] # "removed" THEN status ELSE inst[i]]

\* UPDATE github_installations SET status = $status WHERE installation_id = $1
SetInstallationStatus(inst, id, status) ==
    [i \in DOMAIN inst |-> IF i = id THEN status ELSE inst[i]]

\* An UPDATE of github_repo_mappings with no WHERE clause
DeactivateAll(maps, repos, id) == {[m EXCEPT !.is_active = FALSE] : m \in maps}

\* UPDATE github_repo_mappings SET is_active = false WHERE github_repo_id IN
\* (SELECT github_repo_id FROM github_repositories WHERE installation_id = $1)
Deactivate(maps, repos, id) ==
    {IF \E r \in repos : /\ r.installation_id = id
                          /\ r.github_repo_id = m.github_repo_id
     THEN [m EXCEPT !.is_active = FALSE]
     ELSE m : m \in maps}

\* handle_installation_event on installations inst and mappings maps;
\* failAt: the store statement that fails, 0 for none.  Each statement is
\* committed on its own.
handle_installation_event(inst, maps, repos, e, failAt) ==
    LET doc == e.payload
        id == doc.installation
        out(ok, err, i, m) ==
            [ok |-> ok, err |-> err, installations |-> i, mappings |-> m]
    IN  IF doc.action = "deleted"
        THEN IF id = 0 THEN out(FALSE, "Missing installation.id", inst, maps)
             ELSE IF failAt = 1 THEN out(FALSE, StoreError, inst, maps)
             ELSE IF failAt = 2
             THEN out(FALSE, StoreError,
                      SetInstallationStatus(inst, id, "removed"), maps)
             ELSE out(TRUE, None, SetInstallationStatus(inst, id, "removed"),
                      Deactivate(maps, repos, id))
        ELSE IF doc.action \in {"suspend", "unsuspend"}
        THEN IF failAt = 1 THEN out(FALSE, StoreError, inst, maps)
             ELSE out(TRUE, None,
                      SetInstallationStatus(inst, id,
                          IF doc.action = "suspend" THEN "suspended"
                          ELSE "active"),
                      maps)
        ELSE out(TRUE, None, inst, maps)

Dispatch(e, failAt) ==
    IF e.event_type = "pull_request" THEN handle_pull_request_event(e, failAt)
    ELSE IF e.event_type = "push" THEN handle_push_event(e, failAt)
    ELSE IF e.event_type = "issues" THEN handle_issues_event(e, failAt)
    ELSE Outcome(TRUE, None, prLinks, commitLinks, issues)

-----------------------------------------------------------------------------
(* Webhook processor: process_webhook_event(delivery_id), one step per      *)
(* store round trip, for caller c (a task spawned by the receiver or a      *)
(* runner instance in its retry pass)                                        *)

\* UPDATE github_webhook_events SET ... WHERE delivery_id = $1
UpdateEvents(d, status, rc, msg) ==
    [i \in 1..Len(events) |->
        IF events[i].delivery_id = d
        THEN [events[i] EXCEPT !.status = status,
                               !.retry_count = IF rc = Null THEN @ ELSE rc,
                               !.error_message = IF msg = None THEN @ ELSE msg]
        ELSE events[i]]

\* process_webhook_event returns ret to caller c.  A spawned task logs an
\* error and ends.  The loop of retry_failed_events logs it and takes the
\* next delivery of its batch; after the last one the runner loop continues
\* with a new retry pass.
Return(c, ret) ==
    /\ returned' = [caller |-> c, delivery |-> procs[c].delivery, value |-> ret]
    /\ resp' = NoResponse
    /\ applied' = NoCall
    /\ IF c[1] = "task"
       THEN /\ procs' = [procs EXCEPT ![c] = DoneProc]
            /\ runners' = runners
       ELSE LET rest == Tail(runners[c[2]].batch)
            IN  IF rest # <<>>
                THEN /\ runners' = [runners EXCEPT ![c[2]].batch = rest]
                     /\ procs' = [procs EXCEPT ![c] = StartProc(Head(rest))]
                ELSE /\ runners' = [runners EXCEPT ![c[2]] = IdleRunner]
                     /\ procs' = [procs EXCEPT ![c] = IdleProc]

\* "Mark as processing"
ProcMark(c, storeUp) ==
    /\ procs[c].pc = "mark"
    /\ IF storeUp
       THEN /\ events' = UpdateEvents(procs[c].delivery, "processing", Null, None)
            /\ procs' = [procs EXCEPT ![c].pc = "fetch"]
            /\ Quiet
            /\ runners' = runners
       ELSE /\ Return(c, StoreError)
            /\ events' = events
    /\ UNCHANGED <<config, linked, client, links, jobs, now, rcv, dispatched>>

\* A processor that counts a failed load of the row as an attempt
ProcFetchCounting(c, storeUp) ==
    /\ procs[c].pc = "fetch"
    /\ IF storeUp /\ RowsOf(procs[c].delivery) # {}
       THEN /\ procs' = [procs EXCEPT ![c].pc = "dispatch",
                         ![c].event = events[CHOOSE i \in RowsOf(procs[c].delivery) :
                                        \A k \in RowsOf(procs[c].delivery) : i <= k]]
            /\ Quiet
            /\ runners' = runners
            /\ events' = events
       ELSE /\ Return(c, StoreError)
            /\ events' = [i \in 1..Len(events) |->
                            IF events[i].delivery_id = procs[c].delivery
                            THEN [events[i] EXCEPT !.status = "pending",
                                                   !.retry_count = @ + 1]
                            ELSE events[i]]
    /\ UNCHANGED <<config, linked, client, links, jobs, now, rcv, dispatched>>

\* "Fetch the event": fetch_one fails when the store does or no row matches
ProcFetch(c, storeUp) ==
    /\ procs[c].pc = "fetch"
    /\ IF storeUp /\ RowsOf(procs[c].delivery) # {}
       THEN /\ procs' = [procs EXCEPT ![c].pc = "dispatch",
                         ![c].event = events[CHOOSE i \in RowsOf(procs[c].delivery) :
                                        \A k \in RowsOf(procs[c].delivery) : i <= k]]
            /\ Quiet
            /\ runners' = runners
       ELSE Return(c, StoreError)
    /\ UNCHANGED <<config, linked, client, events, links, jobs, now, rcv, dispatched>>

\* The handler runs on the fetched event
ProcDispatch(c, failAt) ==
    /\ procs[c].pc = "dispatch"
    /\ procs[c].event.event_type # "installation"
    /\ dispatched[procs[c].delivery] < MaxDispatch
    /\ LET out == Dispatch(procs[c].event, failAt)
       IN  /\ prLinks' = out.prLinks
           /\ commitLinks' = out.commitLinks
           /\ issues' = out.issues
           /\ procs' = [procs EXCEPT ![c].pc = "finish",
                                     ![c].result = IF out.ok THEN "ok" ELSE out.err]
    /\ dispatched' = [dispatched EXCEPT ![procs[c].delivery] = @ + 1]
    /\ Quiet
    /\ UNCHANGED <<config, linked, client, events, jobs, now, rcv, runners>>

\* The handler of an installation event runs on the fetched event
ProcInstall(c, failAt) ==
    /\ procs[c].pc = "dispatch"
    /\ procs[c].event.event_type = "installation"
    /\ dispatched[procs[c].delivery] < MaxDispatch
    /\ LET out == handle_installation_event(installations, mappings,
                                            repositories, procs[c].event, failAt)
       IN  /\ installations' = out.installations
           /\ mappings' = out.mappings
           /\ procs' = [procs EXCEPT ![c].pc = "finish",
                                     ![c].result = IF out.ok THEN "ok" ELSE out.err]
    /\ dispatched' = [dispatched EXCEPT ![procs[c].delivery] = @ + 1]
    /\ Quiet
    /\ UNCHANGED <<secret, instances, private_key, server, kills, repositories,
                   linked, client, events, links, jobs, now, rcv, runners>>

\* An event that is failed one attempt late
NewStatusLate(retry_count) ==
    IF retry_count > MAX_EVENT_ATTEMPTS THEN "failed" ELSE "pending"

\* let new_status = if retry_count >= 3 { "failed" } else { "pending" }
NewStatus(retry_count) ==
    IF retry_count >= MAX_EVENT_ATTEMPTS THEN "failed" ELSE "pending"

\* match result: mark completed, or count the retry; then return result
ProcFinish(c, storeUp) ==
    /\ procs[c].pc = "finish"
    /\ LET p == procs[c]
           retry_count == p.event.retry_count + 1
           new_status == NewStatus(retry_count)
       IN  IF ~storeUp
           THEN /\ Return(c, StatusWriteError)
                /\ events' = events
           ELSE IF p.result = "ok"
           THEN /\ events' = UpdateEvents(p.delivery, "completed", Null, None)
                /\ Return(c, "ok")
           ELSE /\ events' = UpdateEvents(p.delivery, new_status, retry_count,
                                          p.result)
                /\ Return(c, p.result)
    /\ UNCHANGED <<config, linked, client, links, jobs, now, rcv, dispatched>>

-----------------------------------------------------------------------------
(* Sync job runner: start_job_runner, retry_failed_events, process_next_job *)

RECURSIVE EligibleFresh(_)
\* A retry pass that selects every pending row, the fresh ones included
EligibleFresh(i) ==
    IF i > Len(events) THEN <<>>
    ELSE IF events[i].status = "pending"
    THEN <<events[i].delivery_id>> \o EligibleFresh(i + 1)
    ELSE EligibleFresh(i + 1)

RECURSIVE Eligible(_)
\* delivery ids of the rows from index i on with status pending and
\* retry_count > 0, in created_at order
Eligible(i) ==
    IF i > Len(events) THEN <<>>
    ELSE IF events[i].status = "pending" /\ events[i].retry_count > 0
    THEN <<events[i].delivery_id>> \o Eligible(i + 1)
    ELSE Eligible(i + 1)

\* A SELECT without its LIMIT
LimitNone(seq, n) == seq

\* LIMIT n
Limit(seq, n) == SubSeq(seq, 1, IF Len(seq) < n THEN Len(seq) ELSE n)

\* retry_failed_events: the SELECT ... LIMIT 5.  An empty batch or a store
\* error falls through to the job pass.
RetrySelect(r, storeUp) ==
    /\ r \in instances
    /\ runners[r].pc = "retry"
    /\ LET batch == Limit(Eligible(1), RETRY_BATCH)
       IN  IF storeUp /\ batch # <<>>
           THEN /\ runners' = [runners EXCEPT ![r].pc = "batch", ![r].batch = batch]
                /\ procs' = [procs EXCEPT ![RunnerCaller(r)] = StartProc(Head(batch))]
           ELSE /\ runners' = [runners EXCEPT ![r].pc = "job"]
                /\ procs' = procs
    /\ Quiet
    /\ UNCHANGED <<config, linked, client, events, links, jobs, now, rcv, dispatched>>

\* A subquery that takes no row lock
ClaimableUnlocked(r) ==
    {j \in DOMAIN jobs : /\ jobs[j].status = "pending"
                         /\ jobs[j].scheduled_at <= now}

\* A subquery that takes the rows left in processing as well
ClaimableStale(r) ==
    {j \in DOMAIN jobs : /\ jobs[j].status \in {"pending", "processing"}
                         /\ jobs[j].scheduled_at <= now
                         /\ jobs[j].lock = 0}

\* WHERE status = 'pending' AND scheduled_at <= now() ... FOR UPDATE SKIP
\* LOCKED: the rows the subquery of instance r may return
Claimable(r) ==
    {j \in DOMAIN jobs : /\ jobs[j].status = "pending"
                         /\ jobs[j].scheduled_at <= now
                         /\ jobs[j].lock = 0}

\* A queue served in order of schedule, priority breaking ties
FirstScheduled(js) ==
    {j \in js : \A k \in js :
        \/ jobs[j].scheduled_at < jobs[k].scheduled_at
        \/ /\ jobs[j].scheduled_at = jobs[k].scheduled_at
           /\ jobs[j].priority >= jobs[k].priority}

\* ORDER BY priority DESC, scheduled_at ASC LIMIT 1
First(js) ==
    {j \in js : \A k \in js :
        \/ jobs[j].priority > jobs[k].priority
        \/ /\ jobs[j].priority = jobs[k].priority
           /\ jobs[j].scheduled_at <= jobs[k].scheduled_at}

\* A runner that polls every 2 s whatever happened
SleepingIdle(rn, secs) == [rn EXCEPT !.pc = "sleep", !.sleep = SLEEP_IDLE,
                                     !.wake = now + SLEEP_IDLE, !.job = 0]

\* tokio::time::sleep(Duration::from_secs(secs))
Sleeping(rn, secs) == [rn EXCEPT !.pc = "sleep", !.sleep = secs,
                                 !.wake = now + secs, !.job = 0]

\* process_next_job: the subquery of the claim selects and locks one row;
\* no row: Ok(false), the runner sleeps 2 s; store error: it sleeps 5 s
ClaimSelect(r, storeUp) ==
    /\ r \in instances
    /\ runners[r].pc = "job"
    /\ IF ~storeUp
       THEN /\ runners' = [runners EXCEPT ![r] = Sleeping(@, SLEEP_ERROR)]
            /\ jobs' = jobs
       ELSE IF Claimable(r) = {}
       THEN /\ runners' = [runners EXCEPT ![r] = Sleeping(@, SLEEP_IDLE)]
            /\ jobs' = jobs
       ELSE \E j \in First(Claimable(r)) :
            /\ jobs' = [jobs EXCEPT ![j].lock = r]
            /\ runners' = [runners EXCEPT ![r].pc = "claim", ![r].job = j]
    /\ Quiet
    /\ UNCHANGED <<config, linked, client, events, links, now, rcv, procs, dispatched>>

\* process_next_job: the UPDATE of the claim marks the selected row
\* processing and returns it; the statement ends and the row lock is released
ClaimUpdate(r) ==
    /\ r \in instances
    /\ runners[r].pc = "claim"
    /\ jobs' = [jobs EXCEPT ![runners[r].job].status = "processing",
                            ![runners[r].job].lock = 0]
    /\ runners' = [runners EXCEPT ![r].pc = "exec"]
    /\ Quiet
    /\ UNCHANGED <<config, linked, client, events, links, now, rcv, procs, dispatched>>

\* The job types the dispatch names
KnownJobTypes ==
    {"sync_issue_to_github", "sync_issue_from_github", "sync_pr",
     "sync_comment_to_github", "sync_comment_from_github", "sync_status",
     "initial_import", "full_resync"}

\* A dispatch that fails a job of a type it does not know
DispatchJobStrict(job_type) ==
    IF job_type \in KnownJobTypes THEN "ok" ELSE "Unknown job type"

\* The dispatch on job_type: a known type is logged as not implemented, any
\* other as unknown; both arms are Ok(())
DispatchJob(job_type) ==
    IF job_type \in KnownJobTypes THEN "ok" ELSE "ok"

RECURSIVE Power(_, _)
Power(b, n) == IF n = 0 THEN 1 ELSE b * Power(b, n - 1)

\* A delay that grows by 5 s per failure
BackoffLinear(retry_count) == BACKOFF_BASE * (retry_count + 1)

\* power(5, retry_count + 1) seconds
Backoff(retry_count) == Power(BACKOFF_BASE, retry_count + 1)

\* A job that dies one failure late
StatusAfterFailureLate(retry_count, max_retries) ==
    IF retry_count + 1 > max_retries THEN "dead" ELSE "pending"

\* CASE WHEN retry_count + 1 >= max_retries THEN 'dead' ELSE 'pending' END
StatusAfterFailure(retry_count, max_retries) ==
    IF retry_count + 1 >= max_retries THEN "dead" ELSE "pending"

\* process_next_job: match result.  res: the result of running the job.
JobFinish(r, res, storeUp) ==
    /\ r \in instances
    /\ runners[r].pc = "exec"
    /\ LET j == runners[r].job
           row == jobs[j]
       IN  IF ~storeUp
           THEN /\ runners' = [runners EXCEPT ![r] = Sleeping(@, SLEEP_ERROR)]
                /\ jobs' = jobs
           ELSE IF res = "ok"
           THEN /\ jobs' = [jobs EXCEPT ![j].status = "completed"]
                /\ runners' = [runners EXCEPT ![r] = IdleRunner]
           ELSE /\ jobs' = [jobs EXCEPT ![j] =
                    [row EXCEPT
                       !.status = StatusAfterFailure(row.retry_count,
                                                     row.max_retries),
                       !.last_error = res,
                       !.retry_count = row.retry_count + 1,
                       !.scheduled_at = now + Backoff(row.retry_count)]]
                /\ runners' = [runners EXCEPT ![r] = IdleRunner]
    /\ Quiet
    /\ UNCHANGED <<config, linked, client, events, links, now, rcv, procs, dispatched>>

\* process_next_job as the code dispatches today
JobExec(r, storeUp) ==
    JobFinish(r, DispatchJob(jobs[runners[r].job].job_type), storeUp)

\* process_next_job with a sync engine that can fail behind the dispatch
JobExecEngine(r, res, storeUp) == JobFinish(r, res, storeUp)

\* tokio::time::sleep is over
Wake(r) ==
    /\ r \in instances
    /\ runners[r].pc = "sleep"
    /\ now >= runners[r].wake
    /\ runners' = [runners EXCEPT ![r] = IdleRunner]
    /\ Quiet
    /\ UNCHANGED <<config, linked, client, events, links, jobs, now, rcv, procs, dispatched>>

\* tokio::time::sleep is over at a time past the last one the clock shows:
\* now = MaxTime stands for every later time
WakeLate(r) ==
    /\ r \in instances
    /\ runners[r].pc = "sleep"
    /\ now = MaxTime
    /\ now < runners[r].wake
    /\ runners' = [runners EXCEPT ![r] = IdleRunner]
    /\ Quiet
    /\ UNCHANGED <<config, linked, client, events, links, jobs, now, rcv, procs, dispatched>>

\* now() advances
Tick ==
    /\ now < MaxTime
    /\ now' = now + 1
    /\ Quiet
    /\ UNCHANGED <<config, linked, client, events, links, jobs, rcv, procs, runners, dispatched>>

-----------------------------------------------------------------------------
(* Process start-up (main) and the OAuth callback, the one place where the  *)
(* App private key is read                                                  *)

\* The environment variable: unset, or a text that is or is not base64 of
\* something that is or is not an RSA key in PEM
AppKey(b64, pem) == [set |-> TRUE, b64 |-> b64, pem |-> pem]
UnsetKey == [set |-> FALSE, b64 |-> FALSE, pem |-> FALSE]
ValidKey == AppKey(TRUE, TRUE)
AppKeys == {UnsetKey, ValidKey, AppKey(FALSE, FALSE), AppKey(TRUE, FALSE)}

\* GitHubClient::new: EncodingKey::from_rsa_pem validates the key
NewClient(pem) ==
    IF pem THEN [ok |-> TRUE, err |-> None]
    ELSE [ok |-> FALSE, err |-> "invalid RSA key"]

\* GitHubClient::from_env
from_env(key) ==
    IF ~key.set
    THEN [ok |-> FALSE, err |-> "GITHUB_APP_PRIVATE_KEY not set"]
    ELSE IF ~key.b64
    THEN [ok |-> FALSE, err |-> "Failed to base64-decode GITHUB_APP_PRIVATE_KEY"]
    ELSE NewClient(key.pem)

\* main binds the listener and serves; nothing before that reads the App key
Listen ==
    /\ server = "starting"
    /\ server' = "listening"
    /\ Quiet
    /\ UNCHANGED <<secret, instances, mappings, private_key, kills,
                   installations, repositories, linked, client, events, links,
                   jobs, now, rcv, procs, runners, dispatched>>

\* GET /github/callback: the client is built from the environment for this
\* request; apiUp: whether GitHub and the store answer
Callback(apiUp) ==
    /\ server = "listening"
    /\ resp = NoResponse
    /\ resp' = IF ~from_env(private_key).ok
               THEN [req |-> NoRequest, code |-> INTERNAL_SERVER_ERROR,
                     log |-> "Failed to create GitHub client"]
               ELSE IF ~apiUp
               THEN [req |-> NoRequest, code |-> INTERNAL_SERVER_ERROR,
                     log |-> "Failed to fetch installation info"]
               ELSE [req |-> NoRequest, code |-> TEMPORARY_REDIRECT,
                     log |-> "installation recorded"]
    /\ returned' = NoReturn
    /\ applied' = NoCall
    /\ UNCHANGED <<config, linked, client, events, links, jobs, now, rcv, procs,
                   runners, dispatched>>

-----------------------------------------------------------------------------
(* The process is killed and started again: its tasks, its runner loop and  *)
(* its token cache are gone, open transactions are rolled back, the store   *)
(* keeps its rows                                                           *)

\* What a kill and restart does to everything but the stored events
Restart ==
    /\ kills < MaxKills
    /\ kills' = kills + 1
    /\ procs' = [c \in Callers |-> IdleProc]
    /\ runners' = [r \in RunnerIds |-> IdleRunner]
    /\ rcv' = [r \in DOMAIN rcv |-> IdleReceiver]
    /\ jobs' = [j \in DOMAIN jobs |-> [jobs[j] EXCEPT !.lock = 0]]
    /\ token_cache' = [i \in InstallationIds |-> NoToken]
    /\ calls' = [c \in ApiCallers |-> IdleCall]
    /\ built' = NoClient
    /\ Quiet
    /\ UNCHANGED <<secret, instances, mappings, private_key, server,
                   installations, repositories, linked, minted, links, now,
                   dispatched>>

\* A restart that sweeps the events left in processing back to pending
KillSweep ==
    /\ Restart
    /\ events' = [i \in 1..Len(events) |->
                    IF events[i].status = "processing"
                    THEN [events[i] EXCEPT !.status = "pending",
                                           !.retry_count = @ + 1]
                    ELSE events[i]]

\* Nothing at startup reads the events of the run before
Kill ==
    /\ Restart
    /\ events' = events

-----------------------------------------------------------------------------
(* Initial states *)

Items == {1, 2}

RepoMapping ==
    [github_repo_id |-> 1, project_id |-> 1, is_active |-> TRUE,
     sync_prs |-> TRUE, sync_issues |-> TRUE, sync_direction |-> "bidirectional",
     status_mapping |-> [pr_opened |-> JString("in_progress"),
                         pr_merged |-> JString("done"),
                         pr_closed |-> JNull,
                         issue_closed |-> JNumber]]

MappingKeys == {"pr_opened", "pr_merged", "pr_closed", "issue_closed",
                "issue_opened"}

NewIssue == [status |-> "todo", sync_source |-> "web", sync_lock_until |-> Null]

\* All but the configuration
InitWork(ids) ==
    /\ prLinks = {}
    /\ commitLinks = {}
    /\ issues = [i \in Items |-> NewIssue]
    /\ now = 0
    /\ rcv = [r \in {1} |-> IdleReceiver]
    /\ resp = NoResponse
    /\ returned = NoReturn
    /\ applied = NoCall
    /\ runners = [r \in RunnerIds |-> IdleRunner]
    /\ dispatched = [d \in ids |-> 0]
    /\ linked = NoLinkCall
    /\ token_cache = [i \in InstallationIds |-> NoToken]
    /\ calls = [c \in ApiCallers |-> IdleCall]
    /\ built = NoClient
    /\ minted = 0

Repository(repo, id) == [github_repo_id |-> repo, installation_id |-> id]

\* Everything but the stored events and their processors, for the
\* deliveries ids
InitFor(ids) ==
    /\ mappings = {RepoMapping}
    /\ installations = [i \in InstallationIds |-> "active"]
    /\ repositories = {Repository(1, 1)}
    /\ InitWork(ids)

InitRest == InitFor(DeliveryIds)

\* The process serves, with a well-formed App key
Running == private_key = ValidKey /\ server = "listening" /\ kills = 0

InitStore ==
    /\ InitRest
    /\ Running
    /\ events = <<>>
    /\ procs = [c \in Callers |-> IdleProc]

\* One service instance; nothing in the repository enqueues sync jobs
Init ==
    /\ InitStore
    /\ secret \in {"k1", NoSecret}
    /\ instances = {1}
    /\ jobs = <<>>

\* A delivery GitHub signs with the shared secret
Delivery(d, etype, body) ==
    [sig |-> Text(Signed("k1", body)), event |-> Text(<<etype>>),
     delivery |-> Text(<<d>>), body |-> body]

\* Signed deliveries: each event type with a payload that goes with it, or
\* a malformed one
PipelineRequests ==
    {Delivery(d, "pull_request", 1) : d \in DeliveryIds}
    \cup {Delivery(d, "push", 2) : d \in DeliveryIds}
    \cup {Delivery(d, "pull_request", 3) : d \in DeliveryIds}
    \cup {Delivery(d, "push", 4) : d \in DeliveryIds}

\* GitHub redelivers a delivery id with the content it first had
GitHubTraffic ==
    {req \in PipelineRequests :
        \A i \in RowsOf(req.delivery.value[1]) :
            /\ events[i].event_type = req.event.value[1]
            /\ events[i].payload = ParseJson(req.body).doc}

Receive(reqs) ==
    \/ \E r \in DOMAIN rcv, req \in reqs : HandleCheck(r, req)
    \/ \E r \in DOMAIN rcv, storeUp \in BOOLEAN : HandleStore(r, storeUp)
    \/ Sent

Process ==
    \/ \E c \in Callers, storeUp \in BOOLEAN : ProcMark(c, storeUp)
    \/ \E c \in Callers, storeUp \in BOOLEAN : ProcFetch(c, storeUp)
    \/ \E c \in Callers, failAt \in FaultPoints : ProcDispatch(c, failAt)
    \/ \E c \in Callers, storeUp \in BOOLEAN : ProcFinish(c, storeUp)

RetryPass == \E r \in RunnerIds, storeUp \in BOOLEAN : RetrySelect(r, storeUp)

Next ==
    \/ Receive(GitHubTraffic)
    \/ Process
    \/ RetryPass
    \/ \E r \in RunnerIds : ClaimSelect(r, TRUE)

Spec == Init /\ [][Next]_vars

-----------------------------------------------------------------------------
(* The process from its start: the runner is spawned before the listener    *)
(* is bound, requests are served once it listens                            *)

InitBoot ==
    /\ InitRest
    /\ events = <<>>
    /\ procs = [c \in Callers |-> IdleProc]
    /\ secret = "k1"
    /\ instances = {1}
    /\ jobs = <<>>
    /\ private_key \in AppKeys
    /\ server = "starting"
    /\ kills = 0

NextBoot ==
    \/ Listen
    \/ \E apiUp \in BOOLEAN : Callback(apiUp)
    \/ server = "listening" /\ Receive(GitHubTraffic)
    \/ Process
    \/ RetryPass
    \/ \E r \in RunnerIds : ClaimSelect(r, TRUE)

SpecBoot == InitBoot /\ [][NextBoot]_vars

-----------------------------------------------------------------------------
(* Two invocations of the receiver at a time: GitHub redelivers while the   *)
(* first delivery is still being handled                                    *)

InitRace ==
    /\ mappings = {RepoMapping}
    /\ installations = [i \in InstallationIds |-> "active"]
    /\ repositories = {Repository(1, 1)}
    /\ Running
    /\ secret = "k1"
    /\ instances = {1}
    /\ jobs = <<>>
    /\ events = <<>>
    /\ procs = [c \in Callers |-> IdleProc]
    /\ prLinks = {}
    /\ commitLinks = {}
    /\ issues = [i \in Items |-> NewIssue]
    /\ now = 0
    /\ rcv = [r \in {1, 2} |-> IdleReceiver]
    /\ resp = NoResponse
    /\ returned = NoReturn
    /\ applied = NoCall
    /\ runners = [r \in RunnerIds |-> IdleRunner]
    /\ dispatched = [d \in DeliveryIds |-> 0]
    /\ linked = NoLinkCall
    /\ token_cache = [i \in InstallationIds |-> NoToken]
    /\ calls = [c \in ApiCallers |-> IdleCall]
    /\ built = NoClient
    /\ minted = 0

SpecRace == InitRace /\ [][Next]_vars

-----------------------------------------------------------------------------
(* The receiver alone, under arbitrary requests *)

InitReceiver ==
    /\ InitStore
    /\ secret \in {"k1", NoSecret}
    /\ instances = {}
    /\ jobs = <<>>

SpecReceiver == InitReceiver /\ [][Receive(Requests)]_vars

-----------------------------------------------------------------------------
(* The service scaled out: several runner instances poll the same store *)

InitScaled ==
    /\ InitStore
    /\ secret = "k1"
    /\ instances = RunnerIds
    /\ jobs = <<>>

SpecScaled == InitScaled /\ [][Next]_vars

-----------------------------------------------------------------------------
(* One process that may be killed at any point and is started again *)

NextCrash == Next \/ Kill

SpecCrash == Init /\ [][NextCrash]_vars

-----------------------------------------------------------------------------
(* The handlers, from a stored event on: every pull_request payload of one  *)
(* PR and pushes to three branches                                          *)

PrActions == {"opened", "closed", "synchronize"}
MergedFlags == {"true", "false", None}

PrDocs ==
    {PrDoc(action, 1, merged, draft) :
        action \in PrActions, merged \in MergedFlags, draft \in BOOLEAN}

\* Branches "baa-1-x", "baa-2-x" and "main"
PushBranches ==
    {<<<<IdTok("baa", 1), WordTok>>>>, <<<<IdTok("baa", 2), WordTok>>>>,
     <<<<WordTok>>>>}

\* One commit; two commits, the second naming item 2; a commit listed twice
PushCommitLists ==
    {<<Commit("sha1", <<WordTok>>)>>,
     <<Commit("sha1", <<WordTok>>), Commit("sha2", <<IdTok("BAA", 2)>>)>>,
     <<Commit("sha2", <<IdTok("BAA", 1)>>), Commit("sha2", <<IdTok("BAA", 1)>>)>>}

PushDocs ==
    {PushDoc(branch, commits) :
        branch \in PushBranches, commits \in PushCommitLists}

\* The receiver has stored delivery 1 and spawned its processor
InitHandlers ==
    /\ InitRest
    /\ Running
    /\ secret = "k1"
    /\ instances = {1}
    /\ jobs = <<>>
    /\ events \in {<<EventRow(1, "pull_request", doc)>> : doc \in PrDocs}
                  \cup {<<EventRow(1, "push", doc)>> : doc \in PushDocs}
    /\ procs = [c \in Callers |-> IF c = Task(1) THEN StartProc(1) ELSE IdleProc]

NextHandlers ==
    \/ Process
    \/ RetryPass
    \/ \E r \in RunnerIds : ClaimSelect(r, TRUE)

SpecHandlers == InitHandlers /\ [][NextHandlers]_vars

-----------------------------------------------------------------------------
(* Two events of one PR, or of one GitHub issue, that arrive together: the  *)
(* status mapping of the one handled first locks the item for 5 s; the      *)
(* clock advances and the runner keeps polling                              *)

\* A mapping with a status for opened and merged PRs and for closed and
\* opened issues
EchoMapping ==
    [RepoMapping EXCEPT !.status_mapping =
        [pr_opened |-> JString("in_progress"), pr_merged |-> JString("done"),
         issue_closed |-> JString("done"), issue_opened |-> JString("todo")]]

EchoIds == {1, 2}

\* PR 1, from branch "baa-1-x", is opened and merged; or issue 7, linked to
\* item 2, is closed and reopened
InitEcho ==
    /\ InitWork(EchoIds)
    /\ Running
    /\ secret = "k1"
    /\ instances = {1}
    /\ jobs = <<>>
    /\ installations = [i \in InstallationIds |-> "active"]
    /\ repositories = {Repository(1, 1)}
    /\ mappings = {EchoMapping}
    /\ events \in {<<EventRow(1, "pull_request", PrDoc("opened", 1, "false", FALSE)),
                      EventRow(2, "pull_request", PrDoc("closed", 1, "true", FALSE))>>,
                    <<EventRow(1, "issues", IssueDoc("closed", 1, 7)),
                      EventRow(2, "issues", IssueDoc("reopened", 1, 7))>>}
    /\ procs = [c \in Callers |->
                  IF c \in {Task(1), Task(2)} THEN StartProc(c[2]) ELSE IdleProc]

\* The handlers run with a store that answers; the statements of the
\* processor itself may fail
NextEcho ==
    \/ \E c \in Callers, storeUp \in BOOLEAN : ProcMark(c, storeUp)
    \/ \E c \in Callers, storeUp \in BOOLEAN : ProcFetch(c, storeUp)
    \/ \E c \in Callers : ProcDispatch(c, 0)
    \/ \E c \in Callers, storeUp \in BOOLEAN : ProcFinish(c, storeUp)
    \/ RetryPass
    \/ \E r \in RunnerIds : ClaimSelect(r, TRUE)
    \/ \E r \in RunnerIds : Wake(r)
    \/ Tick

SpecEcho == InitEcho /\ [][NextEcho]_vars

-----------------------------------------------------------------------------
(* The processor is called for a stored pull_request event, attempted       *)
(* before or not, and for a delivery id that has no row; every statement    *)
(* may fail                                                                 *)

InitFaults ==
    /\ InitWork(EchoIds)
    /\ Running
    /\ secret = "k1"
    /\ instances = {1}
    /\ jobs = <<>>
    /\ installations = [i \in InstallationIds |-> "active"]
    /\ repositories = {Repository(1, 1)}
    /\ mappings = {RepoMapping}
    /\ \E retry_count \in {0, 1} :
           events = <<[EventRow(1, "pull_request",
                                PrDoc("opened", 1, "false", FALSE))
                          EXCEPT !.retry_count = retry_count]>>
    /\ procs = [c \in Callers |->
                  IF c \in {Task(1), Task(2)} THEN StartProc(c[2]) ELSE IdleProc]

SpecFaults == InitFaults /\ [][NextHandlers]_vars

-----------------------------------------------------------------------------
(* Two pull_request events of PR 1: one from branch "baa-1-x", and one that *)
(* may name no item, under mappings that may be inactive or not sync PRs    *)

\* A pull_request payload of PR 1 from branch "main", with a title
UnlinkedDoc(action, merged, title) ==
    [PrDoc(action, 1, merged, FALSE) EXCEPT !.branch = <<<<WordTok>>>>,
                                            !.title = title]

\* The second event: from the branch of item 1; or from "main" with a plain
\* title, or with the id of no item in the title
SecondDocs ==
    {PrDoc("closed", 1, "true", FALSE),
     UnlinkedDoc("opened", "false", <<WordTok>>),
     UnlinkedDoc("closed", "true", <<IdTok("BAA", 9)>>)}

InitSkip ==
    /\ InitWork(EchoIds)
    /\ Running
    /\ secret = "k1"
    /\ instances = {1}
    /\ jobs = <<>>
    /\ installations = [i \in InstallationIds |-> "active"]
    /\ repositories = {Repository(1, 1)}
    /\ \E active \in BOOLEAN, sync_prs \in BOOLEAN :
           mappings = {[RepoMapping EXCEPT !.is_active = active,
                                           !.sync_prs = sync_prs]}
    /\ \E doc \in SecondDocs :
           events = <<EventRow(1, "pull_request", PrDoc("opened", 1, "false", FALSE)),
                      EventRow(2, "pull_request", doc)>>
    /\ procs = [c \in Callers |->
                  IF c \in {Task(1), Task(2)} THEN StartProc(c[2]) ELSE IdleProc]

\* The handlers run with a store that answers
NextSkip ==
    \/ \E c \in Callers, storeUp \in BOOLEAN : ProcMark(c, storeUp)
    \/ \E c \in Callers, storeUp \in BOOLEAN : ProcFetch(c, storeUp)
    \/ \E c \in Callers : ProcDispatch(c, 0)
    \/ \E c \in Callers, storeUp \in BOOLEAN : ProcFinish(c, storeUp)
    \/ RetryPass
    \/ \E r \in RunnerIds : ClaimSelect(r, TRUE)

SpecSkip == InitSkip /\ [][NextSkip]_vars

-----------------------------------------------------------------------------
(* PR 1 is closed, merged or not, and an event of another action of the     *)
(* same PR is processed as well, in either order, while the clock advances  *)

\* The events of PR 1 after it was closed
LaterDocs ==
    {PrDoc("edited", 1, "true", FALSE),
     PrDoc("synchronize", 1, "false", TRUE)}

InitHistory ==
    /\ InitWork(EchoIds)
    /\ Running
    /\ secret = "k1"
    /\ instances = {1}
    /\ jobs = <<>>
    /\ installations = [i \in InstallationIds |-> "active"]
    /\ repositories = {Repository(1, 1)}
    /\ mappings = {RepoMapping}
    /\ \E merged \in {"true", "false"}, doc \in LaterDocs :
           events = <<EventRow(1, "pull_request", PrDoc("closed", 1, merged, FALSE)),
                      EventRow(2, "pull_request", doc)>>
    /\ procs = [c \in Callers |->
                  IF c \in {Task(1), Task(2)} THEN StartProc(c[2]) ELSE IdleProc]

NextHistory ==
    \/ \E c \in Callers, storeUp \in BOOLEAN : ProcMark(c, storeUp)
    \/ \E c \in Callers, storeUp \in BOOLEAN : ProcFetch(c, storeUp)
    \/ \E c \in Callers : ProcDispatch(c, 0)
    \/ \E c \in Callers, storeUp \in BOOLEAN : ProcFinish(c, storeUp)
    \/ RetryPass
    \/ \E r \in RunnerIds : ClaimSelect(r, TRUE)
    \/ Tick

SpecHistory == InitHistory /\ [][NextHistory]_vars

-----------------------------------------------------------------------------
(* PR 1, from branch "main", names item 1 in its title; another event of    *)
(* the PR names item 2, in the title or in the branch                       *)

\* A payload of PR 1 that resolves to item 2: the title was edited; or the
\* payload differs in branch, author and size as well
RelinkDocs ==
    {[PrDoc("edited", 1, "false", FALSE) EXCEPT
          !.branch = <<<<WordTok>>>>, !.title = <<IdTok("BAA", 2)>>],
     [PrDoc("synchronize", 1, "false", FALSE) EXCEPT
          !.branch = <<<<IdTok("baa", 2), WordTok>>>>,
          !.title = <<IdTok("BAA", 1)>>,
          !.author = "hubot", !.additions = 3]}

InitRelink ==
    /\ InitWork(EchoIds)
    /\ Running
    /\ secret = "k1"
    /\ instances = {1}
    /\ jobs = <<>>
    /\ installations = [i \in InstallationIds |-> "active"]
    /\ repositories = {Repository(1, 1)}
    /\ mappings = {RepoMapping}
    /\ \E doc \in RelinkDocs :
           events = <<EventRow(1, "pull_request",
                               [PrDoc("opened", 1, "false", FALSE) EXCEPT
                                   !.branch = <<<<WordTok>>>>,
                                   !.title = <<IdTok("BAA", 1)>>]),
                      EventRow(2, "pull_request", doc)>>
    /\ procs = [c \in Callers |->
                  IF c \in {Task(1), Task(2)} THEN StartProc(c[2]) ELSE IdleProc]

SpecRelink == InitRelink /\ [][NextHistory]_vars

-----------------------------------------------------------------------------
(* A push to branch "baa-1-x" and the opening of PR 1, or the closing of    *)
(* issue 7, under a mapping of any direction with any of its sync flags off *)

InitDirection ==
    /\ InitWork(EchoIds)
    /\ Running
    /\ secret = "k1"
    /\ instances = {1}
    /\ jobs = <<>>
    /\ installations = [i \in InstallationIds |-> "active"]
    /\ repositories = {Repository(1, 1)}
    /\ \E direction \in {"bidirectional", "github_to_baaton", "baaton_to_github"},
          sync_prs \in BOOLEAN, sync_issues \in BOOLEAN :
           mappings = {[EchoMapping EXCEPT !.sync_direction = direction,
                                           !.sync_prs = sync_prs,
                                           !.sync_issues = sync_issues]}
    /\ \E first \in {EventRow(1, "pull_request",
                                PrDoc("opened", 1, "false", FALSE)),
                       EventRow(1, "issues", IssueDoc("closed", 1, 7))} :
           events = <<first,
                      EventRow(2, "push",
                               PushDoc(<<<<IdTok("baa", 1), WordTok>>>>,
                                       <<Commit("sha1", <<WordTok>>)>>))>>
    /\ procs = [c \in Callers |->
                  IF c \in {Task(1), Task(2)} THEN StartProc(c[2]) ELSE IdleProc]

SpecDirection == InitDirection /\ [][NextSkip]_vars

-----------------------------------------------------------------------------
(* The handler of installation events, on every action and installation,    *)
(* over two installations with repositories that projects are mapped to     *)

\* A mapping of repository repo
MappingOf(repo, active) ==
    [RepoMapping EXCEPT !.github_repo_id = repo, !.is_active = active]

InstallActions == {"deleted", "suspend", "unsuspend", "created"}

\* Repositories 1 and 3 are of installation 1, repository 2 of installation 2
InitInstall ==
    /\ InitWork(DeliveryIds)
    /\ Running
    /\ secret = "k1"
    /\ instances = {1}
    /\ jobs = <<>>
    /\ installations \in [InstallationIds -> {"active", "suspended"}]
    /\ repositories = {Repository(1, 1), Repository(2, 2), Repository(3, 1)}
    /\ \E active \in [{1, 2, 3} -> BOOLEAN] :
           mappings = {MappingOf(repo, active[repo]) : repo \in {1, 2, 3}}
    /\ events \in {<<EventRow(1, "installation", InstallDoc(action, id))>> :
                       action \in InstallActions, id \in {0} \cup InstallationIds}
    /\ procs = [c \in Callers |-> IF c = Task(1) THEN StartProc(1) ELSE IdleProc]

NextInstall ==
    \/ \E c \in Callers, storeUp \in BOOLEAN : ProcMark(c, storeUp)
    \/ \E c \in Callers, storeUp \in BOOLEAN : ProcFetch(c, storeUp)
    \/ \E c \in Callers, failAt \in {0, 1, 2} : ProcInstall(c, failAt)
    \/ \E c \in Callers, storeUp \in BOOLEAN : ProcFinish(c, storeUp)
    \/ RetryPass
    \/ \E r \in RunnerIds : ClaimSelect(r, TRUE)

SpecInstall == InitInstall /\ [][NextInstall]_vars

-----------------------------------------------------------------------------
(* Installation 1 is deleted, and suspended or unsuspended as well: the two *)
(* events are processed in either order                                     *)

InitRevive ==
    /\ InitWork(EchoIds)
    /\ Running
    /\ secret = "k1"
    /\ instances = {1}
    /\ jobs = <<>>
    /\ installations \in [InstallationIds -> {"active", "suspended"}]
    /\ repositories = {Repository(1, 1), Repository(2, 2), Repository(3, 1)}
    /\ \E active \in [{1, 2, 3} -> BOOLEAN] :
           mappings = {MappingOf(repo, active[repo]) : repo \in {1, 2, 3}}
    /\ \E action \in {"suspend", "unsuspend"} :
           events = <<EventRow(1, "installation", InstallDoc("deleted", 1)),
                      EventRow(2, "installation", InstallDoc(action, 1))>>
    /\ procs = [c \in Callers |->
                  IF c \in {Task(1), Task(2)} THEN StartProc(c[2]) ELSE IdleProc]

SpecRevive == InitRevive /\ [][NextInstall]_vars

-----------------------------------------------------------------------------
(* The handler of issues events, on every action, over mappings of every    *)
(* direction                                                                *)

IssueActions == {"closed", "reopened", "opened", "edited"}

SyncDirections == {"bidirectional", "github_to_baaton", "baaton_to_github"}

\* A status for closed issues and one for opened ones; or for closed only
IssueStatusMappings ==
    {[issue_closed |-> JString("done"), issue_opened |-> JString("backlog")],
     [issue_closed |-> JString("done")]}

\* Issue 7 of repository 1 is linked to item 2; issue 8 is linked in
\* repository 2 only; repository 2 has no mapping
InitIssues ==
    /\ InitWork(DeliveryIds)
    /\ Running
    /\ secret = "k1"
    /\ instances = {1}
    /\ jobs = <<>>
    /\ installations = [i \in InstallationIds |-> "active"]
    /\ repositories = {Repository(1, 1)}
    /\ \E active \in BOOLEAN, sync_issues \in BOOLEAN,
          direction \in SyncDirections, smap \in IssueStatusMappings :
           mappings = {[RepoMapping EXCEPT !.is_active = active,
                                           !.sync_issues = sync_issues,
                                           !.sync_direction = direction,
                                           !.status_mapping = smap]}
    /\ events \in {<<EventRow(1, "issues", IssueDoc(action, repo, number))>> :
                       action \in IssueActions, repo \in {1, 2},
                       number \in {7, 8}}
    /\ procs = [c \in Callers |-> IF c = Task(1) THEN StartProc(1) ELSE IdleProc]

SpecIssues == InitIssues /\ [][NextHandlers]_vars

-----------------------------------------------------------------------------
(* The pipeline from a stored event on, as long as it runs: one runner      *)
(* instance that keeps polling, every spawned task and the runner scheduled *)
(* again and again by the executor, the clock advancing, and a store whose  *)
(* failures are transient: a statement that is issued again and again       *)
(* succeeds again and again                                                 *)

\* The receiver has stored delivery 1 with one of the payloads of BodyTable
\* and spawned its processor
InitLive ==
    /\ InitRest
    /\ Running
    /\ secret = "k1"
    /\ instances = {1}
    /\ jobs = <<>>
    /\ events \in {<<EventRow(1, "pull_request", BodyTable[1].doc)>>,
                    <<EventRow(1, "push", BodyTable[2].doc)>>,
                    <<EventRow(1, "pull_request", BodyTable[3].doc)>>}
    /\ procs = [c \in Callers |-> IF c = Task(1) THEN StartProc(1) ELSE IdleProc]

\* A step of process_webhook_event for caller c
ProcStep(c) ==
    \/ \E storeUp \in BOOLEAN : ProcMark(c, storeUp)
    \/ \E storeUp \in BOOLEAN : ProcFetch(c, storeUp)
    \/ \E failAt \in FaultPoints : ProcDispatch(c, failAt)
    \/ \E storeUp \in BOOLEAN : ProcFinish(c, storeUp)

\* A step of the loop of start_job_runner of instance r
RunnerStep(r) ==
    \/ \E storeUp \in BOOLEAN : RetrySelect(r, storeUp)
    \/ \E storeUp \in BOOLEAN : ClaimSelect(r, storeUp)
    \/ Wake(r)
    \/ WakeLate(r)

NextLive ==
    \/ \E c \in Callers : ProcStep(c)
    \/ \E r \in RunnerIds : RunnerStep(r)
    \/ Tick

\* The processor invocations of this pipeline: the task spawned for
\* delivery 1 and the retry pass of instance 1
LiveCallers == {Task(1), RunnerCaller(1)}

SpecLive ==
    /\ InitLive
    /\ [][NextLive]_vars
    /\ \A c \in LiveCallers : WF_vars(ProcStep(c))
    /\ WF_vars(RunnerStep(1))
    /\ WF_vars(Tick)
    /\ \A c \in LiveCallers : SF_vars(ProcMark(c, TRUE))
    /\ \A c \in LiveCallers : SF_vars(ProcFetch(c, TRUE))
    /\ \A c \in LiveCallers : SF_vars(ProcDispatch(c, 0))
    /\ \A c \in LiveCallers : SF_vars(ProcFinish(c, TRUE))
    /\ SF_vars(RetrySelect(1, TRUE))

-----------------------------------------------------------------------------
(* The retry pass over a table of stored events, some of which have failed  *)
(* an attempt; the events are pings, which no handler reads                 *)

StoredIds == 1..NumStored

\* A stored ping that has been attempted retry_count times
Attempted(d, retry_count) ==
    [EventRow(d, "ping", NoDoc) EXCEPT !.retry_count = retry_count]

InitBatch ==
    /\ InitFor(StoredIds)
    /\ Running
    /\ secret = "k1"
    /\ instances = {1}
    /\ jobs = <<>>
    /\ \E counts \in [StoredIds -> {0, 1}] :
           events = [d \in StoredIds |-> Attempted(d, counts[d])]
    /\ procs = [c \in Callers |-> IdleProc]

NextBatch ==
    \/ ProcStep(RunnerCaller(1))
    \/ \E storeUp \in BOOLEAN : RetrySelect(1, storeUp)
    \/ \E storeUp \in BOOLEAN : ClaimSelect(1, storeUp)

SpecBatch == InitBatch /\ [][NextBatch]_vars

-----------------------------------------------------------------------------
(* The token cache under concurrent callers, GitHub answering as it likes *)

InitToken ==
    /\ InitStore
    /\ secret = "k1"
    /\ instances = {}
    /\ jobs = <<>>

NextToken ==
    \/ \E c \in ApiCallers, i \in InstallationIds : TokenCheck(c, i)
    \/ \E c \in ApiCallers : \E answer \in Answers(now, minted + 1) :
           minted < MaxMint /\ TokenExchange(c, answer)
    \/ \E c \in ApiCallers : TokenStore(c)
    \/ MinutePasses

SpecToken == InitToken /\ [][NextToken]_vars

-----------------------------------------------------------------------------
(* The job queue: sync jobs enqueued by a producer, run by a sync engine    *)
(* that can fail behind the dispatch                                        *)

JobIds == 1..NumJobs

\* A pending job that has failed retry_count times so far
JobRow(priority, scheduled_at, retry_count, max_retries) ==
    [job_type |-> "sync_pr", status |-> "pending", priority |-> priority,
     scheduled_at |-> scheduled_at, retry_count |-> retry_count,
     max_retries |-> max_retries, last_error |-> None, lock |-> 0]

JobRows ==
    {JobRow(p, t, c, m) : p \in {0, 1}, t \in {0, 2}, c \in {0, 1},
                          m \in 1..MaxRetriesBound}

JobResults == {"ok", "sync failed"}

\* Several runner instances claim from the same queue at one instant
InitClaim ==
    /\ InitStore
    /\ secret = "k1"
    /\ instances = RunnerIds
    /\ jobs \in [JobIds -> {row \in JobRows : row.retry_count = 0}]

NextClaim ==
    \/ \E r \in RunnerIds : RetrySelect(r, TRUE)
    \/ \E r \in RunnerIds, storeUp \in BOOLEAN : ClaimSelect(r, storeUp)
    \/ \E r \in RunnerIds : ClaimUpdate(r)
    \/ \E r \in RunnerIds, storeUp \in BOOLEAN : JobExec(r, storeUp)
    \/ \E r \in RunnerIds, res \in JobResults, storeUp \in BOOLEAN :
           JobExecEngine(r, res, storeUp)

SpecClaim == InitClaim /\ [][NextClaim]_vars

\* One runner instance polls the queue as time passes
InitJobs ==
    /\ InitStore
    /\ secret = "k1"
    /\ instances = {1}
    /\ jobs \in [JobIds -> JobRows]

NextJobs ==
    \/ \E r \in RunnerIds : RetrySelect(r, TRUE)
    \/ \E r \in RunnerIds, storeUp \in BOOLEAN : ClaimSelect(r, storeUp)
    \/ \E r \in RunnerIds : ClaimUpdate(r)
    \/ \E r \in RunnerIds, storeUp \in BOOLEAN : JobExec(r, storeUp)
    \/ \E r \in RunnerIds, res \in JobResults, storeUp \in BOOLEAN :
           JobExecEngine(r, res, storeUp)
    \/ \E r \in RunnerIds : Wake(r)
    \/ Tick

SpecJobs == InitJobs /\ [][NextJobs]_vars

-----------------------------------------------------------------------------
(* The loop of start_job_runner of one instance, over a stored event that   *)
(* may have failed an attempt and a queue of jobs, the clock advancing      *)

InitLoop ==
    /\ InitRest
    /\ Running
    /\ secret = "k1"
    /\ instances = {1}
    /\ jobs \in [JobIds -> JobRows]
    /\ events \in {<<Attempted(1, 0)>>, <<Attempted(1, 1)>>}
    /\ procs = [c \in Callers |-> IdleProc]

\* A step of the loop of instance r, the processor and the job pass included
LoopStep(r) ==
    \/ RunnerStep(r)
    \/ ProcStep(RunnerCaller(r))
    \/ ClaimUpdate(r)
    \/ \E storeUp \in BOOLEAN : JobExec(r, storeUp)

NextLoop == LoopStep(1) \/ Tick

SpecLoop == InitLoop /\ [][NextLoop]_vars

\* The loop over a queue of jobs of known and unknown types
JobTypes == {"sync_pr", "full_resync", "no_such_type"}

InitTypes ==
    /\ InitRest
    /\ Running
    /\ secret = "k1"
    /\ instances = {1}
    /\ \E rows \in [JobIds -> JobRows], types \in [JobIds -> JobTypes] :
           jobs = [j \in JobIds |-> [rows[j] EXCEPT !.job_type = types[j]]]
    /\ events = <<Attempted(1, 1)>>
    /\ procs = [c \in Callers |-> IdleProc]

SpecTypes == InitTypes /\ [][NextLoop]_vars

\* The loop, in a process that may be killed at any point and is started
\* again
NextStop == NextLoop \/ Kill

SpecStop == InitLoop /\ [][NextStop]_vars

\* One runner instance and a job that is retried up to three times
InitBackoff ==
    /\ InitStore
    /\ secret = "k1"
    /\ instances = {1}
    /\ jobs \in [JobIds -> {JobRow(p, t, c, 3) :
                               p \in {0, 1}, t \in {0, 2}, c \in {0, 1}}]

SpecBackoff == InitBackoff /\ [][NextJobs]_vars

\* One runner instance and a queue of two jobs of any priorities and
\* schedules
QueuedIds == {1, 2}

InitQueue ==
    /\ InitStore
    /\ secret = "k1"
    /\ instances = {1}
    /\ jobs \in [QueuedIds -> {JobRow(p, t, 0, 1) : p \in {0, 1}, t \in {0, 2}}]

SpecQueue == InitQueue /\ [][NextJobs]_vars

-----------------------------------------------------------------------------
(* The status mapper alone, called at arbitrary times *)

NextStatus ==
    \/ \E item \in Items, key \in MappingKeys, storeUp \in BOOLEAN :
           StatusCall(item, key, storeUp)
    \/ Tick

SpecStatus == Init /\ [][NextStatus]_vars

-----------------------------------------------------------------------------
(* The issue linker alone, on arbitrary branch names, titles and bodies *)

\* The texts of at most MaxTextLen tokens over an alphabet
Texts(alphabet) == UNION {[1..n -> alphabet] : n \in 0..MaxTextLen}

\* An id in lower case, an id of the project, an id of no item, a closing
\* reference (not read from a title)
TitleTokens == {IdTok("baa", 1), IdTok("BAA", 2), IdTok("BAA", 9), CloseTok(7)}

\* An id of the project, an id of an item of another project, a reference
\* with an IssueLink in the repository, one with an IssueLink in another
\* repository, and the reference #0
BodyTokens == {IdTok("BAA", 2), IdTok("ops", 1), CloseTok(7), CloseTok(8),
               CloseTok(0)}

\* No branch; "baa-1-x"; "x/BAA-2"; "x-BAA-1" (the id opens no segment);
\* "BAA-9/BAA-1" (the first capture is of no item)
Branches ==
    {<<>>,
     <<<<IdTok("baa", 1), WordTok>>>>,
     <<<<WordTok>>, <<IdTok("BAA", 2)>>>>,
     <<<<WordTok, IdTok("BAA", 1)>>>>,
     <<<<IdTok("BAA", 9)>>, <<IdTok("BAA", 1)>>>>}

LookupFaults == {0, 1, 2}

InitLinker ==
    /\ InitStore
    /\ secret = "k1"
    /\ instances = {}
    /\ jobs = <<>>

\* The arguments of the call arrive
LinkArgs ==
    /\ linked = NoLinkCall
    /\ \E branch \in Branches, title \in Texts(TitleTokens),
          body \in Texts(BodyTokens), failLookup \in LookupFaults :
           /\ <<branch, title, body>> # <<<<>>, <<>>, <<>>>>
           /\ linked' = [NoLinkCall EXCEPT !.branch = branch, !.title = title,
                                           !.body = body,
                                           !.failLookup = failLookup]
    /\ UNCHANGED <<config, client, events, links, jobs, now, rcv, outputs, procs, runners,
                   dispatched>>

NextLinker == LinkArgs \/ LinkCall

SpecLinker == InitLinker /\ [][NextLinker]_vars

-----------------------------------------------------------------------------
(* generate_branch_name alone, on arbitrary titles *)

\* A text n times over
RECURSIVE Repeat(_, _)
Repeat(text, n) == IF n = 0 THEN <<>> ELSE text \o Repeat(text, n - 1)

\* A letter, a capital, a two-byte letter, and two characters that are
\* neither letters nor digits
TitleChars == {"a", "B", "e_acute", "!", "-"}

\* "BAA-42" and "Fix Login Bug!!"
ExampleId == <<"B", "A", "A", "-", "4", "2">>
ExampleTitle == <<"F", "i", "x", " ", "L", "o", "g", "i", "n", " ", "B", "u",
                  "g", "!", "!">>

\* The titles: at most one character, then one or two characters repeated
BranchTitles ==
    {ExampleTitle} \cup
    {head \o Repeat(unit, n) :
        head \in UNION {[1..k -> TitleChars] : k \in 0..1},
        unit \in UNION {[1..k -> TitleChars] : k \in 1..2},
        n \in 0..MaxRepeat}

InitBranch ==
    /\ InitStore
    /\ secret = "k1"
    /\ instances = {}
    /\ jobs = <<>>

\* The arguments of the call arrive
BranchArgs ==
    /\ linked = NoLinkCall
    /\ \E display_id \in {ExampleId}, title \in BranchTitles :
           linked' = [display_id |-> display_id, title |-> title,
                      called |-> FALSE, ok |-> TRUE, name |-> <<>>]
    /\ UNCHANGED <<config, client, events, links, jobs, now, rcv, outputs, procs, runners,
                   dispatched>>

NextBranch == BranchArgs \/ BranchCall

SpecBranch == InitBranch /\ [][NextBranch]_vars

-----------------------------------------------------------------------------
(* Properties of the receiver *)

Has(h) == h.kind = "text"
Complete(req) == Has(req.sig) /\ Has(req.event) /\ Has(req.delivery)
DeliveryOf(req) == req.delivery.value[1]

\* The header values that carry the digest of body under key: the prefix
\* and the digest in hex, in either case
GoodSignatures(key, body) ==
    {<<"sha256=">> \o HexEncode(Mac(key, body)),
     <<"sha256=">> \o UpperCase(HexEncode(Mac(key, body)))}

\* A request that gets as far as the verification and whose signature header
\* is not the digest of its body under the configured secret
IncorrectHmac(req) ==
    /\ Complete(req)
    /\ secret # NoSecret
    /\ req.sig.value \notin GoodSignatures(secret, req.body)

StoredBefore(req) == RowsOf(DeliveryOf(req)) # {}

\* C1: with deliveries handled one after another there is never more than
\* one WebhookEvent row per delivery_id, and a row for every delivery that
\* was acknowledged as received; the answer to a delivery whose delivery_id
\* is already stored is 200 (unless the idempotency lookup itself fails), and
\* the step that answers it inserts no row, spawns no processing and leaves
\* the stored events and every PrLink and CommitLink row as they were.
C1_IdempotentDelivery ==
    /\ [](\A d \in DeliveryIds : Cardinality(RowsOf(d)) <= 1)
    /\ [](resp.log = "Received GitHub webhook" => StoredBefore(resp.req))
    /\ [][resp' # NoResponse /\ StoredBefore(resp'.req) =>
            /\ resp'.log # "Idempotency check failed" => resp'.code = 200
            /\ events' = events
            /\ procs' = procs
            /\ prLinks' = prLinks
            /\ commitLinks' = commitLinks]_vars

\* A redelivery of a stored delivery has been answered 200
C1_Witness ==
    /\ resp.code = 200
    /\ resp.log = None
    /\ StoredBefore(resp.req)
    /\ \E c \in Callers : procs[c].pc = "done"

\* C2: a request with an incorrect HMAC (a digest of another body or under
\* another key, a header without the sha256= prefix, or one that is not
\* valid hex), sent with its event-type and delivery-id headers to a server
\* with a secret configured, is answered 401; it never reaches the store
\* step, and the step that answers it stores no event and spawns nothing.
C2_BadSignatureRejected ==
    /\ [](resp # NoResponse /\ IncorrectHmac(resp.req) => resp.code = 401)
    /\ [](\A r \in DOMAIN rcv : rcv[r].pc = "store" => ~IncorrectHmac(rcv[r].req))
    /\ [][resp' # NoResponse /\ IncorrectHmac(resp'.req) =>
            events' = events /\ procs' = procs]_vars

\* A well-formed signature that is the digest under another key, or of
\* another body, has been answered 401
C2_Witness ==
    /\ resp.code = 401
    /\ IncorrectHmac(resp.req)
    /\ StripPrefix(resp.req.sig.value).ok
    /\ HexDecode(StripPrefix(resp.req.sig.value).rest).ok

\* The step ends the store step of the receiver
StoreStep(r) == rcv[r].pc = "store" /\ rcv'[r].pc = "idle"

\* C9: the receiver answers 200 in the very step that persists the event
\* and spawns its processing, before the processor has run; no step of the
\* processor, whatever it returns, writes an HTTP response.  When the
\* payload parses and persisting it fails, the answer is 500, no row exists
\* for that delivery and no processing is spawned.
C9_AckOncePersisted ==
    /\ [][\A r \in DOMAIN rcv : StoreStep(r) /\ events' # events =>
            /\ resp'.code = 200
            /\ resp'.req = rcv[r].req
            /\ events' = Append(events, events'[Len(events')])
            /\ events'[Len(events')].delivery_id = DeliveryOf(rcv[r].req)
            /\ procs'[Task(Len(events'))] = StartProc(DeliveryOf(rcv[r].req))]_vars
    /\ [][\A r \in DOMAIN rcv, d \in DeliveryIds :
            /\ StoreStep(r)
            /\ DeliveryOf(rcv[r].req) = d
            /\ BodyTable[rcv[r].req.body].json
            /\ events' = events
            => /\ resp'.code = 500
               /\ resp'.req = rcv[r].req
               /\ RowsOf(d)' = {}
               /\ procs' = procs]_vars
    /\ [][returned' # NoReturn => resp' = NoResponse]_vars

\* Persisting a well-formed delivery has failed and was answered 500
C9_Witness ==
    /\ resp.code = 500
    /\ resp.log = "Failed to store webhook event"
    /\ BodyTable[resp.req.body].json
    /\ RowsOf(DeliveryOf(resp.req)) = {}
    /\ \A c \in Callers : procs[c].delivery # DeliveryOf(resp.req)

\* C10: the header checks come first, in a fixed order: a request without a
\* readable signature header is answered 401; a request with a signature
\* header but without the event-type or the delivery-id header is answered
\* 400, whether or not a secret is configured and whether or not the
\* signature is right; such a request never reaches the store step, and the
\* step that answers it stores no event and spawns nothing.
C10_HeaderChecksFirst ==
    /\ [](resp # NoResponse /\ ~Has(resp.req.sig) => resp.code = 401)
    /\ [](resp # NoResponse /\ Has(resp.req.sig)
            /\ (~Has(resp.req.event) \/ ~Has(resp.req.delivery))
          => resp.code = 400)
    /\ [](\A r \in DOMAIN rcv : rcv[r].pc = "store" => Complete(rcv[r].req))
    /\ [][resp' # NoResponse /\ ~Complete(resp'.req) =>
            events' = events /\ procs' = procs]_vars

\* A request with a wrong signature and no event-type header has been
\* answered 400
C10_Witness ==
    /\ resp.code = 400
    /\ Has(resp.req.sig)
    /\ resp.req.sig.value \notin GoodSignatures("k1", resp.req.body)
    /\ ~Has(resp.req.event)
    /\ secret = "k1"

-----------------------------------------------------------------------------
(* Properties of the processor *)

\* The stored event of delivery d
StoredRow(d) ==
    IF RowsOf(d) = {} THEN NoRow ELSE events[CHOOSE i \in RowsOf(d) : TRUE]

\* The step ends an attempt of caller c whose final status write was made
FinishStep(c) ==
    /\ procs[c].pc = "finish"
    /\ returned'.caller = c
    /\ returned'.value # StatusWriteError

\* C4: an attempt of process_webhook_event whose final status write is made
\* ends as follows: when the handler succeeded the event is completed, its
\* retry_count untouched, and the call returns success; when the handler
\* failed retry_count is one more than before, the status is failed if the
\* new count is 3 or more and pending otherwise, the error message is the
\* handler's error, and the call returns that same error.
C4_AttemptOutcome ==
    [][\A c \in Callers, d \in DeliveryIds :
         FinishStep(c) /\ procs[c].delivery = d =>
           IF procs[c].result = "ok"
           THEN /\ StoredRow(d)'.status = "completed"
                /\ StoredRow(d)'.retry_count = StoredRow(d).retry_count
                /\ returned'.value = "ok"
           ELSE /\ StoredRow(d)'.retry_count = StoredRow(d).retry_count + 1
                /\ StoredRow(d)'.status =
                       IF StoredRow(d).retry_count + 1 >= 3 THEN "failed"
                       ELSE "pending"
                /\ StoredRow(d)'.error_message = procs[c].result
                /\ returned'.value = procs[c].result]_vars

\* A third failed attempt has left the event failed and returned the
\* handler's error
C4_Witness ==
    /\ returned.value \notin {None, "ok", StatusWriteError}
    /\ RowsOf(returned.delivery) # {}
    /\ StoredRow(returned.delivery).status = "failed"
    /\ StoredRow(returned.delivery).retry_count = 3
    /\ StoredRow(returned.delivery).error_message = returned.value

\* C5: terminal states are permanent: no step changes the status of a
\* WebhookEvent that is completed or failed, or of a SyncJob that is
\* completed or dead, several runner instances polling the same store
\* included.
C5_TerminalPermanent ==
    [][/\ \A i \in 1..Len(events) :
            events[i].status \in {"completed", "failed"}
            => events'[i].status = events[i].status
       /\ \A j \in DOMAIN jobs :
            jobs[j].status \in {"completed", "dead"}
            => jobs'[j].status = jobs[j].status]_vars

\* C6: for every delivery_id the handler is dispatched at most 3 times and
\* retry_count never exceeds 3, whatever the number of runner instances.
C6_AtMostThreeAttempts ==
    /\ \A d \in DeliveryIds : dispatched[d] <= 3
    /\ \A i \in 1..Len(events) : events[i].retry_count <= 3

-----------------------------------------------------------------------------
(* Properties of the job runner *)

\* The instances that have selected or claimed job j and not finished it
Holders(j) ==
    {r \in RunnerIds : runners[r].pc \in {"claim", "exec"} /\ runners[r].job = j}

\* C3: with several runner instances claiming from the same jobs, no two
\* instances ever hold the same job, and a job becomes processing only from
\* pending and only in the claim of the one instance that holds it: an
\* instance that completes its claim finds the job still pending.
C3_ClaimExclusive ==
    /\ [](\A j \in DOMAIN jobs : Cardinality(Holders(j)) <= 1)
    /\ [][\A r \in RunnerIds :
            runners[r].pc = "claim" /\ runners'[r].pc = "exec"
            => /\ jobs[runners[r].job].status = "pending"
               /\ jobs'[runners[r].job].status = "processing"]_vars
    /\ [][\A j \in DOMAIN jobs :
            jobs[j].status # "processing" /\ jobs'[j].status = "processing"
            => /\ jobs[j].status = "pending"
               /\ \E r \in RunnerIds : Holders(j) = {r}]_vars

\* One instance holds a due pending job while another one, which looked for
\* a job after it, found none and sleeps
C3_Witness ==
    \E r1, r2 \in RunnerIds, j \in DOMAIN jobs :
        /\ r1 # r2
        /\ runners[r1].pc = "claim"
        /\ runners[r1].job = j
        /\ jobs[j].status = "pending"
        /\ jobs[j].scheduled_at <= now
        /\ runners[r2].pc = "sleep"
        /\ runners[r2].sleep = 2

\* C7: when the execution of a SyncJob fails and the failure is recorded,
\* the job is dead exactly when retry_count + 1 >= max_retries, with
\* retry_count as stored before the failure, and pending in every other
\* case; retry_count is one more than before in both cases.
C7_DeadExactlyAtMaxRetries ==
    [][\A r \in RunnerIds, j \in DOMAIN jobs :
         /\ runners[r].pc = "exec"
         /\ runners[r].job = j
         /\ jobs'[j] # jobs[j]
         /\ jobs'[j].status # "completed"
         => /\ (jobs'[j].status = "dead")
                  <=> (jobs[j].retry_count + 1 >= jobs[j].max_retries)
            /\ jobs'[j].status \in {"dead", "pending"}
            /\ jobs'[j].retry_count = jobs[j].retry_count + 1]_vars

\* A job has died on its second failure, after the backoff of the first
C7_Witness ==
    \E j \in DOMAIN jobs :
        /\ jobs[j].status = "dead"
        /\ jobs[j].retry_count = 2
        /\ jobs[j].max_retries = 2
        /\ now >= 5

-----------------------------------------------------------------------------
(* Properties of the status mapper *)

\* The mapping keys with a string as their mapped status
MappedKeys ==
    {k \in DOMAIN RepoMapping.status_mapping :
        RepoMapping.status_mapping[k][1] = "string"}

\* The step is a call for item with a mapped status that reaches the store
MappedCall(item) ==
    /\ applied' # NoCall
    /\ applied'.item = item
    /\ applied'.key \in MappedKeys
    /\ applied'.storeUp

\* C8: a call with a mapped status for an item whose anti-echo lock is not
\* held changes one row: it sets the mapped status, sync_source = 'github'
\* and sync_lock_until = now + 5 s.  A call for that item within the 5
\* seconds that follow (up to the instant sync_lock_until included) affects
\* zero rows, leaves status, sync_source and sync_lock_until as they were
\* and returns success.
C8_AntiEcho ==
    [][\A item \in Items : MappedCall(item) =>
         IF issues[item].sync_lock_until = -1
            \/ issues[item].sync_lock_until < now
         THEN /\ applied'.rows = 1
              /\ applied'.ok
              /\ issues'[item] =
                     [status |-> RepoMapping.status_mapping[applied'.key][2],
                      sync_source |-> "github",
                      sync_lock_until |-> now + 5]
         ELSE /\ applied'.rows = 0
              /\ applied'.ok
              /\ issues'[item] = issues[item]]_vars

\* A second call, made exactly 5 seconds after the one that took the lock
\* and asking for another status, has changed nothing
C8_Witness ==
    /\ applied.key \in MappedKeys
    /\ applied.storeUp
    /\ applied.rows = 0
    /\ applied.at >= 5
    /\ issues[applied.item].sync_lock_until = applied.at
    /\ issues[applied.item].status # RepoMapping.status_mapping[applied.key][2]

-----------------------------------------------------------------------------
(* Order of the receiver's checks *)

\* A request with all three headers whose body is malformed JSON, on a
\* server with a secret configured
Malformed(req) ==
    Complete(req) /\ secret # NoSecret /\ ~BodyTable[req.body].json

\* C11: the receiver checks the signature, then the delivery id, then the
\* JSON: a request with its three headers whose body is malformed JSON is
\* answered 401 when its signature is bad; 200, with nothing stored, when its
\* signature is valid and the delivery_id is already stored; and 400, with
\* nothing stored and nothing spawned, when its signature is valid and the
\* delivery_id is new (a failing idempotency lookup apart).
C11_CheckOrder ==
    /\ [](resp # NoResponse /\ Malformed(resp.req) /\ IncorrectHmac(resp.req)
          => resp.code = 401)
    /\ [][/\ resp' # NoResponse
          /\ Malformed(resp'.req)
          /\ ~IncorrectHmac(resp'.req)
          /\ resp'.log # "Idempotency check failed"
          => /\ resp'.code = IF StoredBefore(resp'.req) THEN 200 ELSE 400
             /\ events' = events
             /\ procs' = procs]_vars

\* A malformed body with a valid signature, redelivering a stored
\* delivery_id, has been answered 200
C11_Witness ==
    /\ resp.code = 200
    /\ Malformed(resp.req)
    /\ ~IncorrectHmac(resp.req)
    /\ StoredBefore(resp.req)

-----------------------------------------------------------------------------
(* Properties of the issue linker *)

\* The tokens of kind k of a text, in order of appearance
Only(text, k) == SelectSeq(text, LAMBDA tok : tok.k = k)

\* The item a candidate resolves to for the repository mapping (0: none)
Resolved(tok) ==
    IF tok.k = "id"
    THEN find_issue_by_display_id(RepoMapping.project_id, DisplayId(tok))
    ELSE IF tok.num > 0
    THEN find_issue_by_github_number(RepoMapping.github_repo_id, tok.num)
    ELSE 0

\* The candidates of a call in priority order
Candidates(call) ==
    BranchCapture(call.branch) \o Only(call.title, "id")
        \o Only(call.body, "id") \o Only(call.body, "close")

\* The item of the first candidate that resolves (0: none does)
FirstResolved(cands) ==
    LET hits == {i \in 1..Len(cands) : Resolved(cands[i]) # 0}
    IN  IF hits = {} THEN 0
        ELSE Resolved(cands[CHOOSE i \in hits : \A k \in hits : i <= k])

\* C12: when no lookup fails in the store, find_linked_issue succeeds with
\* the item of the first candidate that resolves, the candidates being the
\* branch-name id, then the display ids of the title in order of appearance,
\* then those of the body, then the closing-keyword references of the body;
\* a candidate that misses does not stop the search.  In particular, when
\* the branch id resolves the branch's item is returned, whatever the title
\* holds.
C12_LinkerPriority ==
    linked.called /\ linked.failLookup = 0 =>
        /\ linked.ok
        /\ linked.issue = FirstResolved(Candidates(linked))
        /\ FirstResolved(BranchCapture(linked.branch)) # 0
           => linked.issue = FirstResolved(BranchCapture(linked.branch))

\* The branch id and a title id resolve to different items of the project
\* and the branch's item has been returned
C12_Witness ==
    /\ linked.called
    /\ linked.failLookup = 0
    /\ FirstResolved(BranchCapture(linked.branch)) = 1
    /\ FirstResolved(Only(linked.title, "id")) = 2
    /\ linked.issue = 1

\* No display id of the branch, the title or the body resolves
NoDisplayIdResolves(call) ==
    FirstResolved(BranchCapture(call.branch) \o Only(call.title, "id")
                      \o Only(call.body, "id")) = 0

\* The IssueLink rows of the mapping's repository for the closing-keyword
\* references of a body
LinksFor(body) ==
    {l \in IssueLinks :
        /\ l.github_repo_id = RepoMapping.github_repo_id
        /\ \E i \in 1..Len(body) :
               body[i].k = "close" /\ body[i].num = l.github_issue_number}

\* C13: when no display id in branch, title or body resolves and no lookup
\* fails in the store, the linker succeeds; it returns the item of the
\* IssueLink of (mapping's repo, N) for a closing-keyword reference #N of
\* the body (the first that has one), and 'no link' when no reference of the
\* body has an IssueLink in that repository.
C13_ClosingReference ==
    linked.called /\ linked.failLookup = 0 /\ NoDisplayIdResolves(linked) =>
        /\ linked.ok
        /\ IF LinksFor(linked.body) = {}
           THEN linked.issue = 0
           ELSE /\ \E l \in LinksFor(linked.body) : linked.issue = l.issue_id
                /\ linked.issue = FirstResolved(Only(linked.body, "close"))

\* A body whose only references have no IssueLink in the repository - one
\* linked in another repository, and #0 - has given 'no link', successfully
C13_Witness ==
    /\ linked.called
    /\ linked.failLookup = 0
    /\ NoDisplayIdResolves(linked)
    /\ Len(Only(linked.body, "close")) = 2
    /\ LinksFor(linked.body) = {}
    /\ linked.ok
    /\ linked.issue = 0

-----------------------------------------------------------------------------
(* The handlers *)

\* The pull_request events stored
PrEvents == {i \in 1..Len(events) : events[i].event_type = "pull_request"}

\* The PrLink rows of the PR an event is about
RowsOfPr(doc) ==
    {row \in prLinks : row.github_repo_id = doc.repo /\ row.pr_number = doc.pr}

\* The table of PR states: merged for a closed PR with merged true, closed
\* for a closed PR with merged false or absent, draft for a draft PR that is
\* not closed, open otherwise
InStateTable(action, merged, draft, state) ==
    /\ action = "closed" /\ merged = "true" => state = "merged"
    /\ action = "closed" /\ merged \in {"false", None} => state = "closed"
    /\ action # "closed" /\ draft => state = "draft"
    /\ action # "closed" /\ ~draft => state = "open"

\* C14: for every combination of action, merged and draft the PR state the
\* handler computes is the one of the table - merged when closed with merged
\* true, closed when closed with merged false or absent (a draft PR
\* included), draft when not closed and draft, open otherwise - and it is the
\* state of the PrLink row the handler stores for the event.
C14_PrStateTable ==
    /\ \A action \in PrActions \cup {None}, merged \in MergedFlags,
          draft \in BOOLEAN :
           InStateTable(action, merged, draft, PrState(action, merged, draft))
    /\ \A i \in PrEvents : \A row \in RowsOfPr(events[i].payload) :
           InStateTable(events[i].payload.action, events[i].payload.merged,
                        events[i].payload.draft, row.pr_state)

\* A draft PR closed without a merged field has its row, in state closed
C14_Witness ==
    \E i \in PrEvents : \E row \in RowsOfPr(events[i].payload) :
        /\ events[i].payload.action = "closed"
        /\ events[i].payload.merged = None
        /\ events[i].payload.draft
        /\ row.pr_state = "closed"
        /\ events[i].status = "completed"

\* The rows of pl for the PR a payload is about
RowsFor(pl, doc) ==
    {row \in pl : row.github_repo_id = doc.repo /\ row.pr_number = doc.pr}

\* C15: processing the same pull_request payload twice leaves exactly one
\* PrLink row for (github_repo_id, pr_number), and after the second
\* processing every field of that row equals its value after the first
\* (updated_at, the one field the claim excepts, is not a field of the
\* modelled row).  Stated from every state the pipeline reaches, for the
\* payload of the stored event: the handler run twice in a row without store
\* failure.
C15_PrUpsertIdempotent ==
    \A i \in PrEvents :
        LET e == events[i]
            doc == e.payload
            first == PullRequestEffect(prLinks, issues, now, e, 0)
            second == PullRequestEffect(first.prLinks, first.issues, now, e, 0)
        IN  /\ first.ok /\ second.ok
            /\ Cardinality(RowsFor(first.prLinks, doc)) = 1
            /\ Cardinality(RowsFor(second.prLinks, doc)) = 1
            /\ second.prLinks = first.prLinks

\* The pipeline has run the handler twice on the payload of a merged PR (the
\* first run failed after the upsert) and the PR has its one row, merged
C15_Witness ==
    \E i \in PrEvents :
        /\ dispatched[events[i].delivery_id] >= 2
        /\ events[i].status = "completed"
        /\ Cardinality(RowsOfPr(events[i].payload)) = 1
        /\ \A row \in RowsOfPr(events[i].payload) :
               row.merged /\ row.pr_state = "merged"

\* At most one row of cl per (github_repo_id, sha)
OnePerSha(cl) ==
    \A r1, r2 \in cl :
        r1.github_repo_id = r2.github_repo_id /\ r1.sha = r2.sha => r1 = r2

\* C16: CommitLinks are insert-once.  There is at most one row per
\* (github_repo_id, sha), and processing a push - the stored one again, or
\* another push carrying a sha already recorded, whatever item it resolves
\* to - leaves every existing row as it is.
C16_CommitInsertOnce ==
    /\ OnePerSha(commitLinks)
    /\ \A doc \in PushDocs :
           LET out == PushEffect(commitLinks, EventRow(1, "push", doc), 0)
           IN  /\ out.ok
               /\ commitLinks \subseteq out.commitLinks
               /\ OnePerSha(out.commitLinks)

\* The pipeline has processed a push twice (the first run failed), its
\* commit is recorded, and a push of the same sha to another branch would
\* resolve to a different item
C16_Witness ==
    \E i \in 1..Len(events) :
        /\ events[i].event_type = "push"
        /\ events[i].status = "completed"
        /\ dispatched[events[i].delivery_id] >= 2
        /\ \E row \in commitLinks, doc \in PushDocs :
               \E other \in PushEffect({}, EventRow(1, "push", doc), 0).commitLinks :
                   /\ other.github_repo_id = row.github_repo_id
                   /\ other.sha = row.sha
                   /\ other.issue_id # row.issue_id

-----------------------------------------------------------------------------
(* The token cache *)

\* The cache holds an entry for the installation whose expiry is more than
\* five minutes away
Reusable(i) ==
    /\ token_cache[i].token # 0
    /\ token_cache[i].expires_at - now > 5 * MINUTE

\* Caller c passes the cache check of for_installation(i)
CheckStep(c, i) ==
    /\ calls[c].pc = "idle"
    /\ \/ calls'[c].pc = "exchange" /\ calls'[c].installation_id = i
       \/ built' # NoClient /\ built'.caller = c /\ built'.installation_id = i

\* C17: for_installation returns the cached token, with no token exchange
\* and no change of the cache, exactly when the cache holds an entry for the
\* installation id that expires more than 5 minutes after now; otherwise it
\* signs a fresh App JWT and requests a token.  The token GitHub answers
\* with is a new one; it replaces the entry of that installation, with the
\* expiry of the answer, or the time of the answer + 55 minutes when the
\* answer's expires_at is absent or does not parse; the client returned
\* carries that token.
C17_TokenReuse ==
    [][\A c \in ApiCallers, i \in InstallationIds :
        /\ CheckStep(c, i) =>
              IF Reusable(i)
              THEN /\ built'.reused /\ built'.ok
                   /\ built'.token = token_cache[i].token
                   /\ UNCHANGED <<token_cache, minted, calls>>
              ELSE /\ calls'[c].pc = "exchange"
                   /\ calls'[c].app_jwt.iat = now - MINUTE
                   /\ calls'[c].app_jwt.exp = now + 9 * MINUTE
                   /\ built' = NoClient
                   /\ UNCHANGED <<token_cache, minted>>
        /\ calls[c].pc = "exchange" /\ calls'[c].pc = "store" =>
              /\ minted' = minted + 1
              /\ calls'[c].token = minted'
              /\ \A j \in InstallationIds : token_cache[j].token # minted'
              /\ \A d \in {5, 6} :
                     calls'[c].answer.expires_at = Text(<<"T", now + d * MINUTE>>)
                     => calls'[c].expires_at = now + d * MINUTE
              /\ calls'[c].answer.expires_at \in {Absent, Text(<<"soon">>)}
                 => calls'[c].expires_at = now + 55 * MINUTE
        /\ calls[c].pc = "store" /\ calls[c].installation_id = i
           /\ calls'[c].pc = "idle" =>
              /\ token_cache'[i] = [token |-> calls[c].token,
                                    expires_at |-> calls[c].expires_at]
              /\ \A j \in InstallationIds \ {i} :
                     token_cache'[j] = token_cache[j]
              /\ built'.token = calls[c].token
              /\ built'.ok /\ ~built'.reused
      ]_vars

\* A cached token has been reused while the entry of the other installation,
\* stored with the fallback expiry, is still in the cache
C17_Witness ==
    /\ built.reused
    /\ built.token = token_cache[built.installation_id].token
    /\ now > 0
    /\ \E j \in InstallationIds \ {built.installation_id} :
           token_cache[j].token # 0
           /\ token_cache[j].expires_at >= 55 * MINUTE

-----------------------------------------------------------------------------
(* The status mapper on keys without a mapped status *)

-----------------------------------------------------------------------------
(* The order of the job queue *)

\* Job k is pending and due
Qualifies(k) == jobs[k].status = "pending" /\ jobs[k].scheduled_at <= now

\* C19: process_next_job claims only a pending job whose scheduled_at is not
\* in the future, and among those the one of highest priority, the earliest
\* scheduled_at breaking ties; the claimed job becomes processing and no
\* other row changes.  When no job qualifies the queue is left as it is and
\* the runner is told that nothing was claimed (it goes to sleep for the
\* idle interval, or the error interval when the store failed).
C19_ClaimOrder ==
    [][\A r \in RunnerIds :
        /\ runners[r].pc = "job" /\ runners'[r].pc # "job" =>
              /\ \A j \in DOMAIN jobs :
                     runners'[r].pc = "claim" /\ runners'[r].job = j =>
                         /\ Qualifies(j)
                         /\ \A k \in DOMAIN jobs : Qualifies(k) =>
                                \/ jobs[k].priority < jobs[j].priority
                                \/ /\ jobs[k].priority = jobs[j].priority
                                   /\ jobs[k].scheduled_at >= jobs[j].scheduled_at
              /\ (\A k \in DOMAIN jobs : ~Qualifies(k)) =>
                     /\ runners'[r].pc = "sleep"
                     /\ runners'[r].sleep \in {SLEEP_IDLE, SLEEP_ERROR}
                     /\ jobs' = jobs
              /\ runners'[r].pc \in {"claim", "sleep"}
              /\ runners'[r].pc = "sleep" /\ (\E k \in DOMAIN jobs : Qualifies(k))
                 => runners'[r].sleep = SLEEP_ERROR /\ jobs' = jobs
        /\ \A j \in DOMAIN jobs :
              runners[r].pc = "claim" /\ runners[r].job = j
              /\ runners'[r].pc = "exec" =>
                  /\ jobs'[j].status = "processing"
                  /\ \A k \in DOMAIN jobs \ {j} : jobs'[k] = jobs[k]
      ]_vars

\* The job of higher priority has been claimed once it was due, although
\* the other pending job was scheduled earlier
C19_Witness ==
    \E r \in RunnerIds : \E j \in DOMAIN jobs : \E k \in DOMAIN jobs :
        /\ runners[r].pc = "exec"
        /\ runners[r].job = j
        /\ jobs[j].status = "processing"
        /\ jobs[j].priority = 1
        /\ jobs[j].scheduled_at = 2
        /\ jobs[k].status = "pending"
        /\ jobs[k].priority = 0
        /\ jobs[k].scheduled_at = 0
        /\ now >= 2

-----------------------------------------------------------------------------
(* Backoff of failed jobs *)

\* The execution of job j by runner r fails and the job stays in the queue
FailureStep(r, j) ==
    /\ runners[r].pc = "exec"
    /\ runners[r].job = j
    /\ jobs'[j] # jobs[j]
    /\ jobs'[j].status = "pending"

\* C20: a job whose execution failed and that is not dead is scheduled again
\* at now + 5^(retry_count + 1) seconds, retry_count being the count before
\* the failure - 5 s after the first failure, 25 s after the second - and
\* the error is recorded on the row.  Nothing else moves scheduled_at, and
\* the job is not claimed before that time.
C20_Backoff ==
    [][\A r \in RunnerIds, j \in DOMAIN jobs :
        /\ FailureStep(r, j) =>
              /\ jobs[j].retry_count = 0 => jobs'[j].scheduled_at = now + 5
              /\ jobs[j].retry_count = 1 => jobs'[j].scheduled_at = now + 25
              /\ jobs[j].retry_count = 2 => jobs'[j].scheduled_at = now + 125
              /\ jobs[j].retry_count <= 2
              /\ jobs'[j].last_error = "sync failed"
        /\ jobs'[j].scheduled_at # jobs[j].scheduled_at =>
              /\ \E x \in RunnerIds : runners[x].pc = "exec" /\ runners[x].job = j
              /\ jobs'[j].retry_count = jobs[j].retry_count + 1
        /\ runners[r].pc = "job" /\ runners'[r].pc = "claim"
           /\ runners'[r].job = j =>
              jobs[j].scheduled_at <= now
      ]_vars

\* A job has failed a second time, 5 s after its first failure, and waits
\* for the 25 s of its second backoff
C20_Witness ==
    \E j \in DOMAIN jobs :
        /\ jobs[j].status = "pending"
        /\ jobs[j].retry_count = 2
        /\ jobs[j].last_error = "sync failed"
        /\ jobs[j].scheduled_at = 5 + 25
        /\ now > 5

-----------------------------------------------------------------------------
(* Progress of the pipeline *)

\* Every row of delivery d is completed or failed
Settled(d) ==
    \A i \in RowsOf(d) : events[i].status \in {"completed", "failed"}

\* C21: with one runner instance that keeps polling and no process crash,
\* every persisted WebhookEvent eventually reaches completed or failed: no
\* event stays pending or processing forever.
C21_EventuallySettled ==
    \A d \in DeliveryIds : Exists(d) ~> Settled(d)

-----------------------------------------------------------------------------
(* Start-up *)

\* The App private key is set and is not the base64 of an RSA key in PEM
MalformedKey == private_key.set /\ ~from_env(private_key).ok

\* C22: a malformed GitHub App private key fails fast: with such a key the
\* process never listens for HTTP requests and never handles a webhook.
C22_KeyFailsFast ==
    MalformedKey =>
        /\ server # "listening"
        /\ events = <<>>
        /\ \A r \in DOMAIN rcv : rcv[r] = IdleReceiver
        /\ resp = NoResponse

-----------------------------------------------------------------------------
(* Branch names *)

\* The slug of a returned name: what follows the display id and its dash
SlugOf(call) == SubSeq(call.name, Len(call.display_id) + 2, Len(call.name))

\* The title in lower case, each character that is neither a letter nor a
\* digit replaced by a dash, with every run of dashes made one dash and the
\* dashes at both ends dropped
Slugged(title) ==
    LET lower == Lowercased(title)
        dash(i) == ~IsAlphanumeric(lower[i])
        keep == {i \in 1..Len(lower) :
                    dash(i) => /\ i > 1 /\ ~dash(i - 1)
                               /\ \E j \in (i + 1)..Len(lower) : ~dash(j)}
        nth(k) == CHOOSE i \in keep : Cardinality({j \in keep : j <= i}) = k
    IN  [k \in 1..Cardinality(keep) |->
            IF dash(nth(k)) THEN "-" ELSE lower[nth(k)]]

\* The call returned, and its result is as the contract says
AsContract(call) ==
    LET slug == SlugOf(call)
        full == Slugged(call.title)
    IN  /\ call.ok
        /\ SubSeq(call.name, 1, Len(call.display_id) + 1)
               = Lowercased(call.display_id) \o <<"-">>
        /\ Len(slug) <= SLUG_MAX
        /\ slug # <<>> => slug[1] # "-" /\ slug[Len(slug)] # "-"
        /\ Len(slug) <= Len(full) /\ slug = SubSeq(full, 1, Len(slug))
        /\ ByteLen(full) <= SLUG_MAX => slug = full

\* C23: generate_branch_name returns a result for every title: the display
\* id in lower case, a dash, and the slug of the title, where every run of
\* characters that are not letters or digits is one dash, no dash leads or
\* trails, and the slug has at most 50 characters; ("BAA-42", "Fix Login
\* Bug!!") gives "baa-42-fix-login-bug".
C23_BranchName ==
    (linked # NoLinkCall /\ linked.called) =>
        /\ AsContract(linked)
        /\ (linked.display_id = ExampleId /\ linked.title = ExampleTitle) =>
               linked.name = <<"b", "a", "a", "-", "4", "2", "-", "f", "i", "x",
                               "-", "l", "o", "g", "i", "n", "-", "b", "u", "g">>

-----------------------------------------------------------------------------
(* The retry pass *)

\* The rows a retry pass may take: pending, and attempted before
Retriable == {i \in 1..Len(events) :
                events[i].status = "pending" /\ events[i].retry_count > 0}

\* The row of a delivery in a table of one row per delivery
RowOf(d) == CHOOSE i \in 1..Len(events) : events[i].delivery_id = d

\* C24: the batch of a retry pass holds only events that are pending with
\* retry_count > 0, at most 5 of them, the oldest ones, oldest first; the
\* processor is invoked on each of them in turn, whatever it returned for
\* the one before.
C24_RetryBatch ==
    [][\A r \in RunnerIds :
        LET c == RunnerCaller(r)
            batch == runners'[r].batch
        IN  /\ (runners[r].pc = "retry" /\ runners'[r].pc = "batch") =>
                   /\ Len(batch) \in 1..RETRY_BATCH
                   /\ \A k \in 1..Len(batch) : RowOf(batch[k]) \in Retriable
                   /\ \A k \in 1..(Len(batch) - 1) :
                          RowOf(batch[k]) < RowOf(batch[k + 1])
                   /\ \A i \in Retriable :
                          \/ \E k \in 1..Len(batch) : RowOf(batch[k]) = i
                          \/ /\ Len(batch) = RETRY_BATCH
                             /\ \A k \in 1..Len(batch) : RowOf(batch[k]) < i
                   /\ procs'[c] = StartProc(batch[1])
            /\ runners[r].pc = "batch" =>
                   /\ procs[c].pc # "idle"
                   /\ procs[c].delivery = Head(runners[r].batch)
                   /\ returned'.caller = c =>
                          /\ returned'.delivery = Head(runners[r].batch)
                          /\ IF Len(runners[r].batch) > 1
                             THEN /\ batch = Tail(runners[r].batch)
                                  /\ procs'[c] = StartProc(batch[1])
                             ELSE runners'[r].pc = "retry"
                   /\ returned'.caller # c =>
                          /\ batch = runners[r].batch
                          /\ procs'[c].delivery = procs[c].delivery]_vars

\* The processor has returned an error for an event of a batch of 5, taken
\* from 6 events that qualify, and is started on the next one
C24_Witness ==
    /\ runners[1].pc = "batch"
    /\ Len(runners[1].batch) = RETRY_BATCH - 1
    /\ returned.caller = RunnerCaller(1)
    /\ returned.value # "ok"
    /\ procs[RunnerCaller(1)] = StartProc(2)
    /\ Cardinality(Retriable) > RETRY_BATCH

-----------------------------------------------------------------------------
(* The runner loop *)

\* C25: an iteration of the runner loop: after a retry pass that found
\* events the loop starts again at once, with no job pass and no sleep;
\* after one that found none, or failed, the job pass runs; the loop starts
\* again at once after a claimed job, sleeps 2 s when no job is claimable
\* and 5 s when the job pass fails; a sleep ends no sooner than its time.
\* The loop never terminates: in every state the runner has a step to take
\* or sleeps until the clock has advanced.
C25_LoopIteration ==
    /\ [](ENABLED NextLoop)
    /\ [][LET rn == runners[1]
              rn2 == runners'[1]
          IN  /\ rn.pc = "retry" => rn2.pc \in {"retry", "batch", "job"}
              /\ (rn.pc = "retry" /\ rn2.pc = "batch") => Retriable # {}
              /\ rn.pc = "batch" =>
                     /\ rn2.pc \in {"batch", "retry"}
                     /\ rn2.pc = "retry" => now' = now
              /\ rn.pc = "job" =>
                     /\ rn2.pc \in {"job", "claim", "sleep"}
                     /\ rn2.pc = "claim" => Claimable(1) # {}
                     /\ rn2.pc = "sleep" =>
                            /\ rn2.sleep \in {2, 5}
                            /\ rn2.sleep = 2 => Claimable(1) = {}
              /\ rn.pc = "claim" => rn2.pc \in {"claim", "exec"}
              /\ rn.pc = "exec" =>
                     /\ rn2.pc \in {"exec", "retry", "sleep"}
                     /\ rn2.pc = "retry" => jobs'[rn.job].status # "processing"
                     /\ rn2.pc = "sleep" =>
                            rn2.sleep = 5 /\ jobs'[rn.job].status = "processing"
              /\ (rn.pc # "sleep" /\ rn2.pc = "sleep") =>
                     rn2.wake = now + rn2.sleep
              /\ rn.pc = "sleep" =>
                     /\ rn2.pc \in {"sleep", "retry"}
                     /\ rn2.pc = "retry" => (now >= rn.wake \/ now = MaxTime)]_vars

\* The final update of a claimed job failed, the job pass returned an
\* error and the runner sleeps 5 s
C25_Witness ==
    /\ runners[1].pc = "sleep"
    /\ runners[1].sleep = 5
    /\ \E j \in DOMAIN jobs : jobs[j].status = "processing"

-----------------------------------------------------------------------------
(* Events left in processing *)

\* The invocations of the processor at work on delivery d, and the runners
\* that hold d in the batch of their retry pass
AtWork(d) ==
    {c \in Callers : procs[c].pc \notin {"idle", "done"} /\ procs[c].delivery = d}
    \cup {RunnerCaller(r) : r \in {x \in RunnerIds :
                \E k \in 1..Len(runners[x].batch) : runners[x].batch[k] = d}}

\* An event in status processing that no invocation is at work on
Stranded(i) ==
    /\ i \in 1..Len(events)
    /\ events[i].status = "processing"
    /\ AtWork(events[i].delivery_id) = {}

\* C26: a kill of the process changes no event and leaves no invocation of
\* the processor; an event in status processing with no invocation at work
\* on it stays so: no step of the receiver, the retry pass or the job pass
\* starts the processor on it or changes its status.
C26_ProcessingStays ==
    [][/\ kills' # kills =>
             /\ events' = events
             /\ \A c \in Callers : procs'[c].pc = "idle"
             /\ \A r \in RunnerIds : runners'[r].batch = <<>>
       /\ \A i \in 1..Len(events) : Stranded(i) => Stranded(i)']_vars

\* The process was killed while delivery 1 was being processed; since then
\* the runner has made its passes and sleeps, and the event is in processing
C26_Witness ==
    /\ kills = 1
    /\ Stranded(1)
    /\ runners[1].pc = "sleep"

-----------------------------------------------------------------------------
(* Installation events *)

\* The mappings of the repositories of installation id
MappingsOf(id) ==
    {m \in mappings : \E r \in repositories :
        r.installation_id = id /\ r.github_repo_id = m.github_repo_id}

\* The mapping of the repository of m in the next state
After(m) == {x \in mappings' : x.github_repo_id = m.github_repo_id}

\* C27: an installation event with action deleted sets the installation
\* removed and every mapping of its repositories inactive, deleting no row;
\* suspend sets it suspended, unsuspend active; any other action changes
\* nothing; other installations and their mappings are never touched.
C27_InstallationEvent ==
    [][\A c \in Callers :
        (/\ procs[c].pc = "dispatch"
         /\ procs[c].event.event_type = "installation"
         /\ procs'[c].pc = "finish") =>
            LET action == procs[c].event.payload.action
                id == procs[c].event.payload.installation
                done == procs'[c].result = "ok"
            IN  /\ repositories' = repositories
                /\ DOMAIN installations' = DOMAIN installations
                /\ \A i \in DOMAIN installations :
                       i # id => installations'[i] = installations[i]
                /\ \A m \in mappings :
                       /\ After(m) # {}
                       /\ m \notin MappingsOf(id) => After(m) = {m}
                /\ Cardinality(mappings') = Cardinality(mappings)
                /\ (done /\ action = "deleted") =>
                       /\ installations'[id] = "removed"
                       /\ \A m \in MappingsOf(id) :
                              After(m) = {[m EXCEPT !.is_active = FALSE]}
                /\ (done /\ action = "suspend" /\ id \in DOMAIN installations) =>
                       installations'[id] = "suspended"
                /\ (done /\ action = "unsuspend" /\ id \in DOMAIN installations) =>
                       installations'[id] = "active"
                /\ action # "deleted" => mappings' = mappings
                /\ action \notin {"deleted", "suspend", "unsuspend"} =>
                       done /\ installations' = installations]_vars

\* Installation 1 was deleted: it is removed, the mappings of its
\* repositories 1 and 3 are inactive, that of repository 2 is still active
C27_Witness ==
    /\ procs[Task(1)].pc = "finish"
    /\ procs[Task(1)].result = "ok"
    /\ procs[Task(1)].event.payload = InstallDoc("deleted", 1)
    /\ installations[1] = "removed"
    /\ installations[2] = "suspended"
    /\ mappings = {MappingOf(1, FALSE), MappingOf(2, TRUE), MappingOf(3, FALSE)}

-----------------------------------------------------------------------------
(* Issues events *)

\* The repository of the payload has an active mapping that syncs issues
\* from GitHub
SyncsIssues(doc) ==
    \E m \in mappings :
        /\ m.github_repo_id = doc.repo
        /\ m.is_active
        /\ m.sync_issues
        /\ m.sync_direction # "baaton_to_github"

\* The items linked to the GitHub issue of the payload
LinkedItems(doc) ==
    {l.issue_id : l \in {x \in IssueLinks : /\ x.github_repo_id = doc.repo
                                            /\ x.github_issue_number = doc.issue}}

\* C28: an issues event changes an item only if its repository has an
\* active mapping with sync_issues whose direction is not baaton_to_github,
\* its action is closed or reopened, and an IssueLink exists for its issue;
\* the item changed is the linked one, and it gets the status mapped for
\* issue_closed on closed and for issue_opened on reopened.  In every other
\* case the handler succeeds, unless the store fails, and no item changes.
C28_IssuesEvent ==
    [][\A c \in Callers :
        (/\ procs[c].pc = "dispatch"
         /\ procs[c].event.event_type = "issues"
         /\ procs'[c].pc = "finish") =>
            LET doc == procs[c].event.payload
                key == IF doc.action = "closed" THEN "issue_closed"
                       ELSE "issue_opened"
                case == /\ SyncsIssues(doc)
                        /\ doc.action \in {"closed", "reopened"}
                        /\ LinkedItems(doc) # {}
            IN  /\ issues' # issues =>
                       /\ case
                       /\ \A i \in DOMAIN issues :
                              issues'[i] # issues[i] =>
                                 /\ i \in LinkedItems(doc)
                                 /\ \E m \in mappings :
                                        /\ key \in DOMAIN m.status_mapping
                                        /\ issues'[i].status
                                              = m.status_mapping[key][2]
                /\ ~case =>
                       /\ issues' = issues
                       /\ procs'[c].result \in {"ok", StoreError}
                /\ prLinks' = prLinks /\ commitLinks' = commitLinks]_vars

\* Issue 7 of repository 1 was reopened: item 2, linked to it, has the
\* status mapped for issue_opened
C28_Witness ==
    /\ procs[Task(1)].pc = "finish"
    /\ procs[Task(1)].result = "ok"
    /\ procs[Task(1)].event.payload = IssueDoc("reopened", 1, 7)
    /\ issues[2].status = "backlog"
    /\ issues[1] = NewIssue

-----------------------------------------------------------------------------
(* Concurrent refreshes of a token *)

\* C29: when callers of for_installation refresh a token concurrently, the
\* last writer wins: an insert replaces the entry of the installation with
\* the caller's own, whatever the entry it finds; each caller returns the
\* token it fetched itself, which no other caller fetched; and a caller is
\* handed a cached token only if, at its cache check, the entry expires
\* more than 5 minutes later.
C29_LastWriterWins ==
    [][\A c \in ApiCallers :
        /\ (calls[c].pc = "store" /\ calls'[c].pc = "idle") =>
               /\ token_cache'[calls[c].installation_id]
                      = [token |-> calls[c].token,
                         expires_at |-> calls[c].expires_at]
               /\ built'.caller = c /\ built'.ok
               /\ built'.token = calls[c].token
               /\ \A o \in ApiCallers \ {c} : calls'[o] = calls[o]
        /\ (calls[c].pc = "exchange" /\ calls'[c].pc = "store") =>
               /\ \A o \in ApiCallers \ {c} : calls[o].token # calls'[c].token
               /\ token_cache' = token_cache
        /\ (built' # NoClient /\ built'.caller = c /\ built'.reused) =>
               /\ token_cache[built'.installation_id].expires_at - now
                      > 5 * MINUTE
               /\ built'.token = token_cache[built'.installation_id].token
      ]_vars

\* Both callers refreshed the token of installation 1 at once: the token
\* issued second was inserted first, and the insert of the token issued
\* first has replaced it
C29_Witness ==
    /\ \A c \in ApiCallers : calls[c].pc = "idle"
    /\ minted = 2
    /\ token_cache[1].token = 1
    /\ token_cache[2] = NoToken
    /\ built.token = 1 /\ ~built.reused

-----------------------------------------------------------------------------
(* The anti-echo lock *)

\* The item an event is linked to
Target(e) ==
    IF e.event_type = "issues"
    THEN find_issue_by_github_number(e.payload.repo, e.payload.issue)
    ELSE find_linked_issue(CHOOSE m \in mappings : TRUE, e.payload.branch,
                           e.payload.title, e.payload.body, 0).issue

\* The item of the event holds a sync lock that is not over
Blocked(e) ==
    /\ Target(e) \in DOMAIN issues
    /\ issues[Target(e)].sync_lock_until # Null
    /\ issues[Target(e)].sync_lock_until >= now

\* C30: when the status mapping of a pull_request or issues event is
\* blocked by the lock of its item, no item changes and the handler
\* succeeds, with the PrLink of a pull_request event upserted; an event
\* whose handler succeeded is marked completed with its retry_count as it
\* was, when the store takes the update; a completed event is never changed or processed again, so the
\* blocked transition is not applied later.
C30_BlockedMapping ==
    [][\A c \in Callers :
        LET e == procs[c].event
            d == procs[c].delivery
        IN  /\ (procs[c].pc = "dispatch" /\ procs'[c].pc = "finish"
                /\ Blocked(e)) =>
                   /\ issues' = issues
                   /\ procs'[c].result = "ok"
                   /\ e.event_type = "pull_request" =>
                          \E l \in prLinks' :
                             /\ l.pr_number = e.payload.pr
                             /\ l.issue_id = Target(e)
                             /\ l.pr_state =
                                   (IF e.payload.action = "closed" THEN "merged"
                                    ELSE "open")
            /\ (procs[c].pc = "finish" /\ procs[c].result = "ok"
                /\ returned'.caller = c /\ returned'.value = "ok") =>
                   \A i \in RowsOf(d) :
                      events'[i] = [events[i] EXCEPT !.status = "completed"]
            /\ \A i \in 1..Len(events) :
                   events[i].status = "completed" =>
                      /\ events'[i] = events[i]
                      /\ (procs'[c].pc = "mark"
                          /\ procs'[c].delivery = events[i].delivery_id) =>
                             procs'[c] = procs[c]]_vars

\* The PR was opened and merged at once: the merge found the item locked
\* by the opening; its event is completed with retry_count 0 and its PrLink
\* says merged, the lock is long over, the runner has polled, and the item
\* is still in the status of the opening
C30_Witness ==
    /\ events[2].event_type = "pull_request"
    /\ events[2].status = "completed"
    /\ events[2].retry_count = 0
    /\ events[1].status = "completed"
    /\ \E l \in prLinks : l.pr_state = "merged"
    /\ issues[1].status = "in_progress"
    /\ now > issues[1].sync_lock_until + 1
    /\ runners[1].pc = "sleep"

-----------------------------------------------------------------------------
(* Skipped pull_request events *)

\* The repository of the event has no active mapping, or one that does not
\* sync PRs, or the branch, title and body of the PR name no item
Skipped(e) ==
    \/ \A m \in mappings :
          ~(m.github_repo_id = e.payload.repo /\ m.is_active /\ m.sync_prs)
    \/ Target(e) = 0

\* C31: a pull_request event for a repository with no active mapping, with
\* sync_prs off, or that resolves to no item leaves every PrLink and every
\* item (status and lock) as they were; its event is marked completed with
\* retry_count unchanged.
C31_SkippedPr ==
    [][\A c \in Callers :
        LET e == procs[c].event
        IN  /\ (procs[c].pc = "dispatch" /\ procs'[c].pc = "finish"
                /\ e.event_type = "pull_request" /\ Skipped(e)) =>
                   /\ prLinks' = prLinks
                   /\ issues' = issues
                   /\ commitLinks' = commitLinks
                   /\ procs'[c].result = "ok"
            /\ (procs[c].pc = "finish" /\ procs[c].result = "ok"
                /\ returned'.caller = c /\ returned'.value = "ok") =>
                   \A i \in RowsOf(procs[c].delivery) :
                      events'[i] = [events[i] EXCEPT !.status = "completed"]]_vars

\* The event from branch "main" was skipped and is completed with
\* retry_count 0, while the PrLink and the item written for the first event
\* are as that event left them
C31_Witness ==
    /\ events[2].payload = UnlinkedDoc("closed", "true", <<IdTok("BAA", 9)>>)
    /\ events[2].status = "completed"
    /\ events[2].retry_count = 0
    /\ events[1].status = "completed"
    /\ \E l \in prLinks : l.pr_state = "open"
    /\ Cardinality(prLinks) = 1
    /\ issues[1].status = "in_progress"

-----------------------------------------------------------------------------
(* Events that were stored and never processed *)

\* A pending event that was never attempted
Fresh(i) ==
    /\ i \in 1..Len(events)
    /\ events[i].status = "pending"
    /\ events[i].retry_count = 0

\* A fresh event no invocation of the processor is at work on
Orphan(i) == Fresh(i) /\ AtWork(events[i].delivery_id) = {}

\* C32: a pending event with retry_count 0 is processed only by the task the
\* receiver spawned when it stored it and answered 200: the retry pass never
\* selects it, and once that task is gone without having run (the process
\* stopped) the event stays pending with retry_count 0 for good.
C32_FreshOnlyByTask ==
    [][/\ \A r \in RunnerIds :
             runners'[r].batch # runners[r].batch /\ runners[r].pc = "retry" =>
                \A k \in 1..Len(runners'[r].batch) :
                   \A i \in RowsOf(runners'[r].batch[k]) : ~Fresh(i)
       /\ \A c \in Callers :
             (procs'[c] # procs[c] /\ procs'[c].pc = "mark"
              /\ \E i \in 1..Len(events') :
                    /\ events'[i].delivery_id = procs'[c].delivery
                    /\ events'[i].status = "pending"
                    /\ events'[i].retry_count = 0) =>
                /\ c \in {Task(i) : i \in TaskSlots}
                /\ Len(events') = Len(events) + 1
                /\ events'[Len(events')].delivery_id = procs'[c].delivery
                /\ resp'.code = OK
       /\ \A i \in 1..Len(events) : Orphan(i) => Orphan(i)']_vars

\* The process was killed after the receiver had stored delivery 1 and
\* before the spawned task ran; the runner of the new process has made its
\* passes and sleeps, and the event is still pending with retry_count 0
C32_Witness ==
    /\ kills = 1
    /\ Orphan(1)
    /\ dispatched[1] = 0
    /\ runners[1].pc = "sleep"

-----------------------------------------------------------------------------
(* Two receiver invocations with one delivery id *)

\* The tasks the receiver has spawned for delivery d
SpawnedFor(d) ==
    {i \in TaskSlots : procs[Task(i)].pc # "idle" /\ procs[Task(i)].delivery = d}

\* C33: however two receiver invocations with the same new delivery_id
\* interleave, the delivery has at most one WebhookEvent row and the
\* processor is spawned for it at most once.
C33_OneRowOneSpawn ==
    [][/\ \A d \in DeliveryIds :
            /\ Cardinality({i \in 1..Len(events') : events'[i].delivery_id = d}) <= 1
            /\ Cardinality(SpawnedFor(d)') <= 1
       /\ \A i \in TaskSlots :
            (procs'[Task(i)] # procs[Task(i)] /\ procs'[Task(i)].pc = "mark") =>
                /\ RowsOf(procs'[Task(i)].delivery) = {}
                /\ events' = Append(events, events'[Len(events')])
                /\ events'[Len(events')].delivery_id = procs'[Task(i)].delivery
       /\ \A i \in 1..Len(events) :
            /\ Len(events') >= Len(events)
            /\ events'[i].delivery_id = events[i].delivery_id]_vars

\* Both invocations passed the existence check before either inserted; one
\* has stored the row and spawned the task, the other's INSERT was refused
C33_Witness ==
    /\ Len(events) = 1
    /\ Cardinality(SpawnedFor(1)) = 1
    /\ rcv[1].pc = "idle"
    /\ rcv[2].pc = "idle"
    /\ resp # NoResponse
    /\ resp.code = INTERNAL_SERVER_ERROR
    /\ resp.log = "Failed to store webhook event"
    /\ resp.req.delivery.value[1] = 1

-----------------------------------------------------------------------------
(* The PR state written *)

\* The PrLink rows of the PR of event e
LinksOf(rows, e) ==
    {l \in rows : l.github_repo_id = e.payload.repo /\ l.pr_number = e.payload.pr}

\* C34: the PR state a pull_request event writes depends on the event alone,
\* never on the stored PrLink: an event of an action other than closed
\* writes open (draft for a draft PR) over a PrLink that says merged or
\* closed, and applies the pr_opened mapping to the item.
C34_StateFromEvent ==
    [][\A c \in Callers :
        LET e == procs[c].event
        IN  (procs[c].pc = "dispatch" /\ procs'[c].pc = "finish"
             /\ e.event_type = "pull_request" /\ ~Skipped(e)) =>
               /\ LinksOf(prLinks', e) # {}
               /\ \A l \in LinksOf(prLinks', e) :
                     l.pr_state =
                        (IF e.payload.action = "closed" /\ e.payload.merged = "true"
                         THEN "merged"
                         ELSE IF e.payload.action = "closed" THEN "closed"
                         ELSE IF e.payload.draft THEN "draft"
                         ELSE "open")
               /\ (e.payload.action # "closed" /\ ~Blocked(e)) =>
                     /\ issues'[Target(e)].status = "in_progress"
                     /\ issues'[Target(e)].sync_source = "github"
                     /\ issues'[Target(e)].sync_lock_until = now + LOCK_SECONDS]_vars

\* PR 1 was merged, which set the item to done; after the lock of that
\* change was over an edited event of the PR was processed: the PrLink,
\* with its merge recorded, says open and the item is in progress
C34_Witness ==
    /\ events[1].status = "completed"
    /\ events[2].status = "completed"
    /\ events[2].payload.action = "edited"
    /\ \E l \in prLinks : l.merged /\ l.pr_state = "open"
    /\ issues[1].status = "in_progress"
    /\ issues[1].sync_lock_until > 2 * LOCK_SECONDS

-----------------------------------------------------------------------------
(* What an event writes on a PrLink that exists *)

\* C35: the first insert of a PrLink fixes its issue_id, head_branch, author
\* and link_method; a later event of the PR updates its title, state and
\* diff stats only, also when the linker resolves another item: the status
\* mapping is then applied to the newly resolved item while the PrLink
\* still points to the first.
C35_LinkFixedByInsert ==
    [][\A c \in Callers :
        LET e == procs[c].event
        IN  (procs[c].pc = "dispatch" /\ procs'[c].pc = "finish"
             /\ e.event_type = "pull_request" /\ ~Skipped(e)) =>
               /\ \A l \in LinksOf(prLinks, e) :
                     [l EXCEPT !.pr_title = e.payload.title,
                               !.pr_state = IF e.payload.draft THEN "draft"
                                            ELSE "open",
                               !.additions = e.payload.additions] \in prLinks'
               /\ Cardinality(prLinks') =
                     IF LinksOf(prLinks, e) = {} THEN Cardinality(prLinks) + 1
                     ELSE Cardinality(prLinks)
               /\ \A l \in LinksOf(prLinks', e) \ prLinks :
                     LinksOf(prLinks, e) = {} =>
                        /\ l.issue_id = Target(e)
                        /\ l.head_branch = e.payload.branch
                        /\ l.author_login = e.payload.author
                        /\ l.link_method = "branch_name"
               /\ ~Blocked(e) =>
                     /\ issues'[Target(e)].status = "in_progress"
                     /\ \A i \in Items \ {Target(e)} : issues'[i] = issues[i]]_vars

\* The PR was opened naming item 1; an event from another branch and author
\* that names item 2 followed: the PrLink still has item 1, branch "main"
\* and the first author, with the size of the later event, and item 2 is
\* in progress as item 1 is
C35_Witness ==
    /\ events[1].status = "completed"
    /\ events[2].status = "completed"
    /\ \E l \in prLinks :
          /\ l.issue_id = 1
          /\ l.head_branch = <<<<WordTok>>>>
          /\ l.author_login = "octocat"
          /\ l.link_method = "branch_name"
          /\ l.additions = 3
          /\ l.pr_title = <<IdTok("BAA", 1)>>
    /\ Cardinality(prLinks) = 1
    /\ issues[1].status = "in_progress"
    /\ issues[2].status = "in_progress"

-----------------------------------------------------------------------------
(* Suspend and unsuspend after deleted *)

\* C36: suspend and unsuspend set the status of the installation whatever it
\* is: a removed installation becomes suspended or active again when the
\* event is processed after deleted, while the mappings deleted deactivated
\* stay inactive.
C36_RemovedRevived ==
    [][/\ \A c \in Callers :
            LET e == procs[c].event
            IN  (procs[c].pc = "dispatch" /\ procs'[c].pc = "finish"
                 /\ e.event_type = "installation"
                 /\ e.payload.action \in {"suspend", "unsuspend"}
                 /\ procs'[c].result = "ok") =>
                   /\ installations'[e.payload.installation] =
                         (IF e.payload.action = "suspend" THEN "suspended"
                          ELSE "active")
                   /\ \A i \in InstallationIds \ {e.payload.installation} :
                         installations'[i] = installations[i]
                   /\ mappings' = mappings
       /\ \A m \in mappings :
            ~m.is_active => \A x \in After(m) : ~x.is_active]_vars

\* Installation 1 was deleted, which deactivated the mappings of its
\* repositories 1 and 3, and then unsuspended: it is active again, the two
\* mappings are inactive, the mapping of repository 2 is as it was
C36_Witness ==
    /\ events[1].status = "completed"
    /\ events[2].status = "completed"
    /\ events[2].payload.action = "unsuspend"
    /\ installations[1] = "active"
    /\ \A m \in MappingsOf(1) : ~m.is_active
    /\ \E m \in mappings : m.github_repo_id = 2 /\ m.is_active

-----------------------------------------------------------------------------
(* How a claimed job ends *)

\* C37: a claimed job is completed whatever its job_type: the failure
\* branch is never taken, so no retry_count grows, no job is rescheduled
\* and none is dead, and a job leaves processing in no other way than to
\* completed.
C37_ClaimedJobCompleted ==
    [][/\ \A r \in RunnerIds :
            (runners[r].pc = "exec" /\ runners'[r].pc = "retry") =>
                jobs'[runners[r].job] =
                    [jobs[runners[r].job] EXCEPT !.status = "completed"]
       /\ \A j \in DOMAIN jobs :
            /\ jobs'[j].retry_count = jobs[j].retry_count
            /\ jobs'[j].scheduled_at = jobs[j].scheduled_at
            /\ jobs'[j].last_error = jobs[j].last_error
            /\ jobs'[j].status # "dead"
            /\ (jobs[j].status = "processing" /\ jobs'[j] # jobs[j]) =>
                   jobs'[j] = [jobs[j] EXCEPT !.status = "completed"]]_vars

\* A job of an unknown type that had failed once before was claimed and is
\* completed, its retry_count and schedule as they were
C37_Witness ==
    /\ jobs[1].job_type = "no_such_type"
    /\ jobs[1].status = "completed"
    /\ jobs[1].retry_count = 1
    /\ jobs[1].scheduled_at = 2
    /\ jobs[1].last_error = None
    /\ runners[1].pc = "sleep"

-----------------------------------------------------------------------------
(* What counts as an attempt *)

\* C38: only a failure of the handler is counted as an attempt: when the
\* update that marks the event processing fails, when the row cannot be
\* loaded (the store fails or the delivery id has no row), or when the final
\* status update fails, process_webhook_event returns the error and writes
\* nothing: retry_count is not incremented and the status is not set to
\* pending or failed, so an event can stay in processing with the effects
\* of its handler applied.
C38_OnlyHandlerFailuresCount ==
    [][/\ \A c \in Callers :
            /\ (procs[c].pc \in {"mark", "fetch"} /\ returned'.caller = c) =>
                   /\ events' = events
                   /\ returned'.value = StoreError
                   /\ <<prLinks', commitLinks', issues'>> =
                         <<prLinks, commitLinks, issues>>
            /\ (procs[c].pc = "finish" /\ returned'.caller = c
                 /\ returned'.value = StatusWriteError) =>
                   /\ events' = events
                   /\ <<prLinks', commitLinks', issues'>> =
                         <<prLinks, commitLinks, issues>>
       /\ \A i \in 1..Len(events) :
            \/ /\ events'[i].retry_count = events[i].retry_count
               /\ events'[i].status \in {events[i].status, "processing", "completed"}
            \/ \E c \in Callers :
                  /\ procs[c].pc = "finish"
                  /\ procs[c].result # "ok"
                  /\ procs[c].delivery = events[i].delivery_id
                  /\ returned'.caller = c
                  /\ returned'.value = procs[c].result
                  /\ events'[i].retry_count = procs[c].event.retry_count + 1]_vars

\* The handler of delivery 1 upserted the PrLink and set the item in
\* progress, then the update to completed failed: the call has returned the
\* error and the event is in processing with retry_count 0
C38_Witness ==
    /\ returned.caller = Task(1)
    /\ returned.value = StatusWriteError
    /\ events[1].status = "processing"
    /\ events[1].retry_count = 0
    /\ prLinks # {}
    /\ issues[1].status = "in_progress"
    /\ procs[Task(1)].pc = "done"

\* The call for delivery 2, which has no row, failed to load it and has
\* returned the error; nothing is stored for delivery 2
UnknownIdReturned ==
    /\ returned.caller = Task(2)
    /\ returned.value = StoreError
    /\ RowsOf(2) = {}
    /\ procs[Task(2)].pc = "done"

-----------------------------------------------------------------------------
(* Jobs left in processing *)

\* A job in status processing that no runner is executing
StrandedJob(j) ==
    /\ j \in DOMAIN jobs
    /\ jobs[j].status = "processing"
    /\ \A r \in RunnerIds : ~(runners[r].pc = "exec" /\ runners[r].job = j)

\* C39: a job left in processing, because the runner stopped after the
\* claim or because the update to completed failed, is never claimed again:
\* the claim selects pending jobs only, and the job stays in processing as
\* it is.
C39_ProcessingJobStays ==
    [][/\ \A r \in RunnerIds :
            (runners'[r].pc = "claim" /\ runners[r].pc # "claim") =>
                jobs[runners'[r].job].status = "pending"
       /\ \A r \in RunnerIds :
            (runners[r].pc = "exec" /\ runners'[r].pc \notin {"exec", "retry"}) =>
                /\ jobs' = jobs \/ kills' # kills
                /\ \A j \in DOMAIN jobs :
                      j = runners[r].job => StrandedJob(j)'
       /\ \A j \in DOMAIN jobs :
            StrandedJob(j) => /\ StrandedJob(j)'
                              /\ jobs'[j] = jobs[j]]_vars

\* The process was killed after the claim and before the job was
\* completed: the job is in processing, is due, and the runner of the new
\* process has made its passes and sleeps at the last time the clock shows
C39_Witness ==
    /\ kills = 1
    /\ StrandedJob(1)
    /\ jobs[1].scheduled_at <= now
    /\ runners[1].pc = "sleep"
    /\ now = MaxTime

\* The update to completed failed: the runner sleeps 5 s after the error
\* and the job is in processing
CompletingWriteFailed ==
    /\ kills = 0
    /\ StrandedJob(1)
    /\ runners[1].pc = "sleep"
    /\ runners[1].sleep = SLEEP_ERROR

-----------------------------------------------------------------------------
(* Who reads sync_direction *)

\* The active mapping of the repository of event e
MappingFor(e) == {m \in mappings : m.github_repo_id = e.payload.repo /\ m.is_active}

\* C40: only the handler of issues events consults sync_direction: under a
\* baaton_to_github mapping a pull_request event (sync_prs on) still upserts
\* the PrLink and changes the status of the item, and a push event still
\* records its CommitLinks, also with sync_prs and sync_issues both off,
\* while an issues event changes nothing.
C40_DirectionOnlyForIssues ==
    [][\A c \in Callers :
        LET e == procs[c].event
        IN  (procs[c].pc = "dispatch" /\ procs'[c].pc = "finish") =>
              \A m \in MappingFor(e) :
                 /\ procs'[c].result = "ok"
                 /\ (e.event_type = "pull_request" /\ m.sync_prs) =>
                        /\ \E l \in prLinks' : /\ l.pr_number = e.payload.pr
                                                /\ l.issue_id = 1
                                                /\ l.pr_state = "open"
                        /\ issues'[1] = [status |-> "in_progress",
                                         sync_source |-> "github",
                                         sync_lock_until |-> now + LOCK_SECONDS]
                 /\ e.event_type = "push" =>
                        /\ commitLinks' =
                              {[issue_id |-> 1, github_repo_id |-> 1, sha |-> "sha1"]}
                        /\ issues' = issues
                        /\ prLinks' = prLinks
                 /\ e.event_type = "issues" =>
                        /\ prLinks' = prLinks
                        /\ commitLinks' = commitLinks
                        /\ issues' =
                             IF m.sync_issues /\ m.sync_direction # "baaton_to_github"
                             THEN [issues EXCEPT ![2] =
                                      [status |-> "done", sync_source |-> "github",
                                       sync_lock_until |-> now + LOCK_SECONDS]]
                             ELSE issues]_vars

\* Under a baaton_to_github mapping with sync_prs on and sync_issues off the
\* PR event and the push are completed: the PrLink is there, item 1 is in
\* progress and the commit is recorded
C40_Witness ==
    /\ \E m \in mappings : /\ m.sync_direction = "baaton_to_github"
                            /\ m.sync_prs
                            /\ ~m.sync_issues
    /\ events[1].event_type = "pull_request"
    /\ events[1].status = "completed"
    /\ events[2].status = "completed"
    /\ \E l \in prLinks : l.issue_id = 1 /\ l.pr_state = "open"
    /\ issues[1].status = "in_progress"
    /\ commitLinks # {}

\* The push is recorded under a baaton_to_github mapping with sync_prs and
\* sync_issues both off, while the closing of the linked issue changed no
\* item
PushRecordedSyncOff ==
    /\ \E m \in mappings : /\ m.sync_direction = "baaton_to_github"
                            /\ ~m.sync_prs
                            /\ ~m.sync_issues
    /\ events[1].event_type = "issues"
    /\ events[1].status = "completed"
    /\ events[2].status = "completed"
    /\ commitLinks # {}
    /\ issues = [i \in Items |-> NewIssue]

====
